---- MODULE Spec2Model ----
(***************************************************************************)
(* Suite versioning and artifact lineage of the test-case generator:       *)
(* app/agent.py (make_team_for_suite and the module-level suite-state      *)
(* helpers) and app/results_writer.py (SupabaseResultsWriter).             *)
(*                                                                         *)
(* One suite is modelled.  The row store is four tables of rows; the       *)
(* suite row holds state = {agent_state, latest_version, version_history}. *)
(* A tool call is a sequence of steps of one thread of control (pc); the   *)
(* bulk writers run their tasks in a thread pool (pool), one row-store     *)
(* call per step.                                                          *)
(***************************************************************************)
EXTENDS Integers, Sequences, FiniteSets, TLC

\* ---- bounds ----
MaxCuts == 3        \* number of _increment_suite_version calls explored
MaxFaults == 1      \* number of failing suite-state reads and writes explored
MaxCases == 3       \* cases in one generated test-case artifact
MaxRuns == 2        \* runs of run_stream_with_suite explored

\* ---- input domains ----
\* requirement ids returned by the extractor; "" is a blank/missing id
ReqCodes == {"", "REQ-1", "REQ-2"}
\* the id lists the extractor returns
CodeLists == {<<"REQ-1">>, <<"", "REQ-1">>}
\* the id list of a document with two requirements
PairCodeLists == {<<"REQ-1", "REQ-2">>}
VpNames == {"N1"}
\* first requirement reference of a viewpoint item; "" is no reference
VpRefs == {"", "REQ-1"}

VARIABLES
    latest_version,     \* test_suites.state["latest_version"]; 0 is absent
    version_history,    \* test_suites.state["version_history"]; <<>> is absent
    agent_state,        \* test_suites.state["agent_state"]
    requirements,       \* table requirements
    test_cases,         \* table test_cases
    test_designs,       \* table test_designs
    viewpoints,         \* table viewpoints
    events,             \* table team_events, the new_version payloads
    cache,              \* _SUITE_REQUIREMENTS[suite_id_value]
    next_id,            \* next row id handed out by the row store
    pc,                 \* the tool call in progress and its position
    pool,               \* tasks of the running ThreadPoolExecutor
    now,                \* number of _increment_suite_version calls so far
    cut,                \* record of the latest _increment_suite_version call
    faults,             \* number of suite-state reads and writes that failed
    done,               \* the last two completed tool calls, newest first
    result,             \* what the last finished tool call returned or raised
    tc_obj,             \* a parsed test-case JSON on its way through a generator
    status,             \* test_suites.status
    run,                \* the run of run_stream_with_suite in progress
    cutters             \* concurrent _increment_suite_version calls

suite == <<latest_version, version_history, agent_state>>
tables == <<requirements, test_cases, test_designs, viewpoints>>
loop == <<status, run, cutters>>
vars == <<latest_version, version_history, agent_state, requirements,
          test_cases, test_designs, viewpoints, events, cache, next_id,
          pc, pool, now, cut, faults, done, result, tc_obj,
          status, run, cutters>>

\* ---- contents ----
\* requirement content: the extractor's dict; version is the key that only
\* the minimal row of write_testcases carries (0 is absent)
ReqContent(code, text, ver) == [id |-> code, text |-> text, version |-> ver]
\* test-case content: the generator's dict; body <<>> is a non-dict
\* value, version is the embedded "version" key (0 is absent)
TcContent(code, body, ver) == [requirement_id |-> code, body |-> body, version |-> ver]
NullTc == TcContent("", <<>>, 0)
IsDict(c) == c.body # <<>>
\* viewpoint item: name, references.requirements[0] and the rest
VpItem(name, ref, body) == [name |-> name, ref |-> ref, body |-> body]

NoOrigin == [none |-> TRUE]

Idle == [op |-> "none", stage |-> "idle", version |-> 0, src |-> 0, arg |-> <<>>]

NoCut == [n |-> 0, read_ok |-> TRUE, write_ok |-> TRUE, ret |-> 0,
          prior_lv |-> 0, prior_hist |-> <<>>, description |-> [text |-> "", n |-> 0],
          clone_ran |-> FALSE, event_emitted |-> FALSE,
          fresh |-> [k \in {"requirements", "test_cases", "test_designs", "viewpoints"} |-> TRUE],
          src_active |-> [k \in {"requirements", "test_cases", "test_designs", "viewpoints"} |-> {}]]

\* what a tool call gives back: a value ("ok", with the two lists of a bulk
\* call), the "no_requirements" payload of the edit, or a raised ValueError
NoResult == [op |-> "none", status |-> "none", error |-> "", results |-> <<>>, errors |-> <<>>]
Returned(op) == [NoResult EXCEPT !.op = op, !.status = "ok"]
Raised(op, error) == [NoResult EXCEPT !.op = op, !.status = "error", !.error = error]

\* no test-case JSON in flight
NoTcObj == [path |-> "none", req_id |-> "", raw |-> <<>>, cases |-> <<>>, stage |-> "none"]

\* the team of make_team_for_suite, lines 2615-2673
Roles == {"planner", "fetcher", "requirements_extractor", "testcase_writer"}

\* no run in progress: n counts the runs started, speaker is the role the
\* Swarm lets act next, tool the versioned tool it has called and that is
\* running; loaded is the state load_state was given, saved
\* the state save_state returned in run saved_run, save_ok whether it was
\* stored.  halted, asked (ask_user has written its question) and
\* recognized (the edit request was recognized) record what happened in
\* the run.
NoRun == [n |-> 0, phase |-> "none", task |-> "none", speaker |-> "planner",
          tool |-> "none", halted |-> FALSE,
          asked |-> FALSE, recognized |-> FALSE,
          loaded |-> [team |-> "absent", wraps |-> <<>>],
          saved |-> [team |-> "absent", wraps |-> <<>>],
          saved_run |-> 0, save_ok |-> FALSE]

\* no _increment_suite_version call in progress on either request
NoCutters == [c \in {1, 2} |-> [stage |-> "idle", prior_lv |-> 0, prior_hist |-> <<>>,
                                 prior_agent |-> [team |-> "absent", wraps |-> <<>>],
                                 new_version |-> 0, hist |-> <<>>, ret |-> 0]]

\* a suite nothing has been generated for
NewSuite ==
    /\ latest_version = 0
    /\ version_history = <<>>
    /\ agent_state = [team |-> "absent", wraps |-> <<>>]
    /\ requirements = {}
    /\ test_cases = {}
    /\ test_designs = {}
    /\ viewpoints = {}
    /\ events = <<>>
    /\ cache = <<>>
    /\ next_id = 1
    /\ pc = Idle
    /\ pool = {}
    /\ now = 0
    /\ cut = NoCut
    /\ faults = 0
    /\ done = <<>>
    /\ result = NoResult
    /\ status = "idle"
    /\ run = NoRun
    /\ cutters = NoCutters

Init ==
    /\ NewSuite
    /\ tc_obj = NoTcObj

\* ---- suite state: _get_suite_agent_state, _write_full_suite_state ----
\* the state the caller works with: the stored one, or {} when the read
\* failed (the helper returns None and the caller substitutes {})
PriorLatest(read_ok) == IF read_ok THEN latest_version ELSE 0
PriorHistory(read_ok) == IF read_ok THEN version_history ELSE <<>>
PriorAgent(read_ok) == IF read_ok THEN agent_state ELSE [team |-> "absent", wraps |-> <<>>]

Desc(text) == [text |-> text, n |-> 0]
RestoredFrom(n) == [text |-> "Restored from v", n |-> n]

\* faulty variant of NewVersion: an existing latest_version is reused
NewVersionStale(read_ok) ==
    IF PriorLatest(read_ok) = 0 THEN 1 ELSE PriorLatest(read_ok)

NewVersion(read_ok) == PriorLatest(read_ok) + 1

NewHistory(description, read_ok) ==
    Append(PriorHistory(read_ok),
           [version |-> NewVersion(read_ok), description |-> description,
            timestamp |-> now + 1])

\* merged_state = dict(prior_state) with latest_version replaced: the
\* caller's view of the whole state, stored under the agent_state key
MergedState(read_ok) ==
    [team |-> PriorAgent(read_ok).team,
     wraps |-> <<[latest_version |-> NewVersion(read_ok),
                  version_history |-> PriorHistory(read_ok)]>>
               \o PriorAgent(read_ok).wraps]

HasRows(tbl, v) == \E r \in tbl : r.version = v

\* lines 132-165 of _increment_suite_version: read, compute, write; the
\* write's own failure is swallowed inside _write_full_suite_state
IncrementState(description, read_ok, write_ok) ==
    /\ now < MaxCuts
    /\ now' = now + 1
    /\ faults' = faults + (IF read_ok THEN 0 ELSE 1) + (IF write_ok THEN 0 ELSE 1)
    /\ faults' <= MaxFaults
    /\ cut' = [n |-> now + 1, read_ok |-> read_ok, write_ok |-> write_ok,
               ret |-> NewVersion(read_ok),
               prior_lv |-> latest_version, prior_hist |-> version_history,
               description |-> description,
               clone_ran |-> FALSE, event_emitted |-> FALSE,
               src_active |-> NoCut.src_active,
               fresh |-> [k \in DOMAIN NoCut.fresh |->
                            CASE k = "requirements" -> ~HasRows(requirements, NewVersion(read_ok))
                              [] k = "test_cases" -> ~HasRows(test_cases, NewVersion(read_ok))
                              [] k = "test_designs" -> ~HasRows(test_designs, NewVersion(read_ok))
                              [] OTHER -> ~HasRows(viewpoints, NewVersion(read_ok))]]
    /\ IF write_ok
         THEN /\ latest_version' = NewVersion(read_ok)
              /\ version_history' = NewHistory(description, read_ok)
              /\ agent_state' = MergedState(read_ok)
         ELSE UNCHANGED suite

\* lines 132-138 and 189-190 of _increment_suite_version: the stored state
\* cannot be used (latest_version is no number, the state is no dict), the
\* try block raises and the call returns None (0); nothing is written
IncrementRaises(description) ==
    /\ now < MaxCuts
    /\ now' = now + 1
    /\ faults' = faults + 1
    /\ faults' <= MaxFaults
    /\ cut' = [NoCut EXCEPT !.n = now + 1, !.prior_lv = latest_version,
                            !.prior_hist = version_history,
                            !.description = description]
    /\ UNCHANGED suite

\* the caller goes on with version_now = None
AfterRaise(op, arg) ==
    [op |-> op, stage |-> "persist", version |-> 0, src |-> 0, arg |-> arg]

\* where the call goes after the state write: clone when new_version > 1
AfterWrite(op, read_ok, source_version, arg) ==
    [op |-> op,
     stage |-> IF NewVersion(read_ok) > 1 THEN "clone_requirements" ELSE "event",
     version |-> NewVersion(read_ok),
     src |-> IF source_version # 0 THEN source_version ELSE NewVersion(read_ok) - 1,
     arg |-> arg]


\* ---- row store helpers ----
\* update active = False on the rows selected (ids) that are active
Deactivate(tbl, ids) ==
    {IF r.active /\ r.id \in ids THEN [r EXCEPT !.active = FALSE] ELSE r : r \in tbl}

\* every order in which a select without ORDER BY may return the rows
Orders(rows) ==
    {f \in [1..Cardinality(rows) -> rows] :
        \A i, j \in 1..Cardinality(rows) : i # j => f[i] # f[j]}

Item(content) == [content |-> content, origin |-> NoOrigin]
ClonedItem(content) == [content |-> content, origin |-> [none |-> FALSE, content |-> content]]

\* ---- SupabaseResultsWriter ----
\* _get_requirement_row_id: select ... eq(req_code) limit(1), no ORDER BY:
\* any row of that code may be the one returned; 0 is None
Candidates(reqs, req_code) == {r.id : r \in {x \in reqs : x.req_code = req_code}}

Picks(reqs) ==
    {f \in [ReqCodes -> {0} \cup {r.id : r \in reqs}] :
        \A c \in ReqCodes :
            IF Candidates(reqs, c) = {} THEN f[c] = 0 ELSE f[c] \in Candidates(reqs, c)}

\* write_requirements: rows without req_code are dropped; for each row,
\* deactivate the active rows of its (suite_id, req_code), then insert
RECURSIVE WriteRequirements(_, _, _, _)
WriteRequirements(tbl, nid, items, version) ==
    IF items = <<>> THEN [tbl |-> tbl, nid |-> nid]
    ELSE LET it == Head(items)
             req_code == it.content.id
             SameKey(r) == r.req_code = req_code
         IN IF req_code = ""
              THEN WriteRequirements(tbl, nid, Tail(items), version)
              ELSE WriteRequirements(
                     Deactivate(tbl, {r.id : r \in {x \in tbl : SameKey(x)}}) \cup
                       {[id |-> nid, req_code |-> req_code, content |-> it.content,
                         version |-> version, active |-> TRUE, origin |-> it.origin]},
                     nid + 1, Tail(items), version)

\* the insert of write_testcases (lines 347-355)
TcRow(nid, req_row_id, item, version) ==
    [id |-> nid, requirement_id |-> req_row_id, content |-> item.content,
     version |-> version, active |-> TRUE, origin |-> item.origin]

\* the deactivate of write_testcases (line 343): by requirement_id only
DeactivateTestcases(tbl, req_row_id) ==
    LET SameKey(r) == r.requirement_id = req_row_id
    IN Deactivate(tbl, {r.id : r \in {x \in tbl : SameKey(x)}})

\* write_testcases with the row lookup resolved to pick[req_code]: when no
\* requirement row exists a minimal one is inserted first (testcases.get
\* raises on a non-dict value and nothing is written)
WriteTestcases(reqs, tcs, nid, pick, req_code, item, version) ==
    IF pick[req_code] # 0
      THEN [requirements |-> reqs,
            test_cases |-> DeactivateTestcases(tcs, pick[req_code]) \cup
                             {TcRow(nid, pick[req_code], item, version)},
            nid |-> nid + 1]
    ELSE IF ~IsDict(item.content)
      THEN [requirements |-> reqs, test_cases |-> tcs, nid |-> nid]
    ELSE [requirements |-> reqs \cup
                            {[id |-> nid, req_code |-> req_code,
                              content |-> ReqContent(req_code, <<>>, version),
                              version |-> version, active |-> TRUE,
                              origin |-> NoOrigin]},
          test_cases |-> DeactivateTestcases(tcs, nid) \cup
                           {TcRow(nid + 1, nid, item, version)},
          nid |-> nid + 2]

\* faulty variant of DeactivateTestDesigns: the prior rows are deleted
DeleteTestDesigns(tbl, testing_type) ==
    {r \in tbl : ~(r.active /\ r.testing_type = testing_type)}

\* write_test_design: deactivate the active rows of (suite_id,
\* testing_type), then insert
DeactivateTestDesigns(tbl, testing_type) ==
    LET SameKey(r) == r.testing_type = testing_type
    IN Deactivate(tbl, {r.id : r \in {x \in tbl : SameKey(x)}})

TdRow(nid, testing_type, item, version) ==
    [id |-> nid, testing_type |-> testing_type, content |-> item.content,
     version |-> version, active |-> TRUE, origin |-> item.origin]

WriteTestDesign(tbl, nid, item, testing_type, version) ==
    [tbl |-> DeactivateTestDesigns(tbl, testing_type) \cup
               {TdRow(nid, testing_type, item, version)},
     nid |-> nid + 1]

\* _derive_item_name: the item's name, else built from its other fields
DeriveItemName(it) == IF it.name # "" THEN it.name ELSE "Viewpoint"

\* requirement_id_local of write_viewpoints: the caller's value, else the
\* row of the item's first requirement reference, else None (0)
ResolveRequirementId(pick, requirement_id, it) ==
    IF requirement_id # 0 THEN requirement_id
    ELSE IF it.ref # "" THEN pick[it.ref] ELSE 0

\* the deactivate of write_viewpoints (line 638): eq(requirement_id, None)
\* selects no row
DeactivateViewpoints(tbl, requirement_id, name) ==
    LET SameKey(r) == /\ requirement_id # 0
                      /\ r.requirement_id = requirement_id
                      /\ r.name = name
    IN Deactivate(tbl, {r.id : r \in {x \in tbl : SameKey(x)}})

VpRow(nid, requirement_id, item, version) ==
    [id |-> nid, requirement_id |-> requirement_id,
     name |-> DeriveItemName(item.content), content |-> item.content,
     version |-> version, active |-> TRUE, origin |-> item.origin]

\* write_viewpoints over the items of content, in order
RECURSIVE WriteViewpoints(_, _, _, _, _, _)
WriteViewpoints(tbl, nid, pick, requirement_id, items, version) ==
    IF items = <<>> THEN [tbl |-> tbl, nid |-> nid]
    ELSE LET it == Head(items)
             rid == ResolveRequirementId(pick, requirement_id, it.content)
         IN WriteViewpoints(
              DeactivateViewpoints(tbl, rid, DeriveItemName(it.content)) \cup
                {VpRow(nid, rid, it, version)},
              nid + 1, pick, requirement_id, Tail(items), version)


\* ---- inputs ----
\* the text the generation call returns is new with every call: call is
\* the number of the tool call, i the position of the item in its list
Fresh(call, i) == <<call, i>>

ReqListsOf(code_lists, call) ==
    {[i \in DOMAIN codes |-> ReqContent(codes[i], Fresh(call, i), 0)] : codes \in code_lists}
ReqLists(call) == ReqListsOf(CodeLists, call)
VpLists(call) == {<<VpItem(n, r, Fresh(call, 1))>> : n \in VpNames, r \in VpRefs}
\* the "edits" lists of the edit generator: none, one edit with a dict or
\* with a missing new_testcases, one edit naming no known requirement
EditLists(call) ==
    {<<>>,
     <<[req_code |-> "REQ-1", new_testcases |-> TcContent("REQ-1", Fresh(call, 1), 0)]>>,
     <<[req_code |-> "REQ-1", new_testcases |-> NullTc]>>,
     <<[req_code |-> "", new_testcases |-> TcContent("", Fresh(call, 1), 0)]>>}

Finish(op, source_version, version) ==
    /\ pc' = Idle
    /\ done' = SubSeq(<<[op |-> op, src |-> source_version, version |-> version]>> \o done,
                      1, IF Len(done) >= 1 THEN 2 ELSE 1)

\* ---- tools: the start of each call, up to the suite-state write ----
\* extract_and_store_requirements, lines 261-278
ExtractRequirements ==
    /\ pc.stage = "idle"
    /\ \E reqs \in ReqLists(now + 1), read_ok, write_ok \in BOOLEAN :
        /\ cache' = reqs
        /\ \/ /\ IncrementState(Desc("Requirements extracted"), read_ok, write_ok)
              /\ pc' = AfterWrite("extract", read_ok, 0, reqs)
           \/ /\ read_ok /\ write_ok
              /\ IncrementRaises(Desc("Requirements extracted"))
              /\ pc' = AfterRaise("extract", reqs)
    /\ UNCHANGED <<tables, events, next_id, pool, done>>
    /\ UNCHANGED <<tc_obj, loop>>
    /\ result' = NoResult

\* generate_test_design, lines 2194-2199
GenerateTestDesign ==
    /\ pc.stage = "idle"
    /\ \E body \in {Fresh(now + 1, 1)}, read_ok, write_ok \in BOOLEAN :
        /\ \/ /\ IncrementState(Desc("Generated test design"), read_ok, write_ok)
              /\ pc' = AfterWrite("test_design", read_ok, 0, body)
           \/ /\ read_ok /\ write_ok
              /\ IncrementRaises(Desc("Generated test design"))
              /\ pc' = AfterRaise("test_design", body)
    /\ UNCHANGED <<tables, events, cache, next_id, pool, done>>
    /\ UNCHANGED <<tc_obj, loop>>
    /\ result' = NoResult

\* generate_viewpoints, lines 2340-2388
GenerateViewpoints ==
    /\ pc.stage = "idle"
    /\ \E items \in VpLists(now + 1), read_ok, write_ok \in BOOLEAN :
        /\ \/ /\ IncrementState(Desc("Generated viewpoints"), read_ok, write_ok)
              /\ pc' = AfterWrite("viewpoints", read_ok, 0, items)
           \/ /\ read_ok /\ write_ok
              /\ IncrementRaises(Desc("Generated viewpoints"))
              /\ pc' = AfterRaise("viewpoints", items)
    /\ UNCHANGED <<tables, events, cache, next_id, pool, done>>
    /\ UNCHANGED <<tc_obj, loop>>
    /\ result' = NoResult

\* generate_and_store_testcases_for_req with a req_id, lines 635-747: the
\* requirement must be in the cache
GenerateTestcases ==
    /\ pc.stage = "idle"
    /\ \E i \in 1..Len(cache), body \in {Fresh(now + 1, 1)}, read_ok, write_ok \in BOOLEAN :
        /\ \/ /\ IncrementState(Desc("Generated test cases"), read_ok, write_ok)
              /\ pc' = AfterWrite("testcases", read_ok, 0,
                                  [req_id |-> cache[i].id,
                                   tc_obj |-> TcContent(cache[i].id, body, 0)])
           \/ /\ read_ok /\ write_ok
              /\ IncrementRaises(Desc("Generated test cases"))
              /\ pc' = AfterRaise("testcases", [req_id |-> cache[i].id, tc_obj |-> TcContent(cache[i].id, body, 0)])
    /\ UNCHANGED <<tables, events, cache, next_id, pool, done>>
    /\ UNCHANGED <<tc_obj, loop>>
    /\ result' = NoResult

\* edit_testcases_for_req as it would be if the reply were parsed first and
\* the version cut only for a reply that holds edits
EditTestcasesCutIfEdits ==
    /\ pc.stage = "idle"
    /\ \E edits \in EditLists(now + 1), read_ok, write_ok \in BOOLEAN :
        IF edits = <<>>
          THEN /\ read_ok /\ write_ok
               /\ pc' = [op |-> "edit", stage |-> "persist", version |-> latest_version,
                         src |-> 0, arg |-> edits]
               /\ UNCHANGED <<suite, now, cut, faults>>
          ELSE \/ /\ IncrementState(Desc("edit note"), read_ok, write_ok)
                  /\ pc' = AfterWrite("edit", read_ok, 0, edits)
               \/ /\ read_ok /\ write_ok
                  /\ IncrementRaises(Desc("edit note"))
                  /\ pc' = AfterRaise("edit", edits)
    /\ UNCHANGED <<tables, events, cache, next_id, pool, done>>
    /\ UNCHANGED <<tc_obj, loop>>
    /\ result' = NoResult

\* edit_testcases_for_req, lines 1348-1357: the version is cut first
EditTestcases ==
    /\ pc.stage = "idle"
    /\ \E edits \in EditLists(now + 1), read_ok, write_ok \in BOOLEAN :
        /\ \/ /\ IncrementState(Desc("edit note"), read_ok, write_ok)
              /\ pc' = AfterWrite("edit", read_ok, 0, edits)
           \/ /\ read_ok /\ write_ok
              /\ IncrementRaises(Desc("edit note"))
              /\ pc' = AfterRaise("edit", edits)
    /\ UNCHANGED <<tables, events, cache, next_id, pool, done>>
    /\ UNCHANGED <<tc_obj, loop>>
    /\ result' = NoResult

\* restore_suite_version, lines 1307-1308
RestoreSuiteVersion ==
    /\ pc.stage = "idle"
    /\ \E source_version \in 1..now, read_ok, write_ok \in BOOLEAN :
        /\ \/ /\ IncrementState(RestoredFrom(source_version), read_ok, write_ok)
              /\ result' = NoResult
              /\ pc' = AfterWrite("restore", read_ok, source_version, source_version)
           \/ /\ read_ok /\ write_ok
              /\ IncrementRaises(RestoredFrom(source_version))
              /\ result' = Raised("restore", "Failed to create new version during restore")
              /\ UNCHANGED pc
    /\ UNCHANGED <<tables, events, cache, next_id, pool, done>>
    /\ UNCHANGED <<tc_obj, loop>>

\* run_stream_with_suite, lines 2810-2821: the team state replaces
\* agent_state; latest_marker is None because the team state has no
\* latest_version key
SaveStateAtRunEnd ==
    /\ pc.stage = "idle"
    /\ \E write_ok \in BOOLEAN :
        IF write_ok
          THEN agent_state' = [team |-> "saved", wraps |-> <<>>]
          ELSE UNCHANGED agent_state
    /\ UNCHANGED <<latest_version, version_history, tables, events, cache,
                   next_id, pc, pool, now, cut, faults, done>>
    /\ UNCHANGED <<tc_obj, loop>>
    /\ UNCHANGED result


\* ---- _clone_current_artifacts_to_version ----
RowsAt(tbl, v) == {r \in tbl : r.version = v}

\* 1) requirements, lines 295-325
CloneRequirements ==
    /\ pc.stage = "clone_requirements"
    /\ IF HasRows(requirements, pc.version)
         THEN UNCHANGED <<requirements, next_id>>
         ELSE \E rows \in Orders(RowsAt(requirements, pc.src)) :
                LET reqs == [i \in DOMAIN rows |-> ClonedItem(rows[i].content)]
                    res == WriteRequirements(requirements, next_id, reqs, pc.version)
                IN /\ requirements' = res.tbl
                   /\ next_id' = res.nid
    /\ pc' = [pc EXCEPT !.stage = "clone_test_cases"]
    /\ cut' = [cut EXCEPT !.clone_ran = TRUE,
                          !.src_active = [k \in DOMAIN NoCut.fresh |->
                              {r.content : r \in {x \in RowsAt(
                                  CASE k = "requirements" -> requirements
                                    [] k = "test_cases" -> test_cases
                                    [] k = "test_designs" -> test_designs
                                    [] OTHER -> viewpoints, pc.src) : x.active}}]]
    /\ UNCHANGED <<suite, test_cases, test_designs, viewpoints, events, cache,
                   pool, now, faults, done>>
    /\ UNCHANGED <<tc_obj, loop>>
    /\ UNCHANGED result

\* req_id_to_code, lines 340-353: rows without id or req_code are left out
ReqIdToCode(reqs, rid) ==
    IF \E r \in reqs : r.id = rid /\ r.req_code # ""
      THEN (CHOOSE r \in reqs : r.id = rid).req_code
      ELSE ""

\* faulty variant of TestcaseTasks: the content is copied as it is
TestcaseTasksVerbatim(reqs, tc_rows, target_version) ==
    {[n |-> row.id, kind |-> "test_cases", stage |-> "deactivate",
      req_code |-> ReqIdToCode(reqs, row.requirement_id),
      testing_type |-> "", requirement_id |-> 0,
      item |-> ClonedItem(row.content),
      version |-> target_version] :
        row \in {x \in tc_rows : /\ ReqIdToCode(reqs, x.requirement_id) # ""
                                 /\ IsDict(x.content)}}

\* bulk_rows, lines 365-388: one task per source row that has a known
\* requirement code and a dict content; content["version"] is re-stamped
TestcaseTasks(reqs, tc_rows, target_version) ==
    {[n |-> row.id, kind |-> "test_cases", stage |-> "deactivate",
      req_code |-> ReqIdToCode(reqs, row.requirement_id),
      testing_type |-> "", requirement_id |-> 0,
      item |-> [content |-> [row.content EXCEPT !.version = target_version],
                origin |-> [none |-> FALSE, content |-> row.content]],
      version |-> target_version] :
        row \in {x \in tc_rows : /\ ReqIdToCode(reqs, x.requirement_id) # ""
                                 /\ IsDict(x.content)}}

\* 2) test cases, lines 328-396: the rows go to write_testcases_bulk
CloneTestCases ==
    /\ pc.stage = "clone_test_cases"
    /\ LET bulk_rows == IF HasRows(test_cases, pc.version) THEN {}
                        ELSE TestcaseTasks(requirements,
                                           RowsAt(test_cases, pc.src), pc.version)
       IN /\ pool' = bulk_rows
          /\ pc' = [pc EXCEPT !.stage = IF bulk_rows = {} THEN "clone_test_designs"
                                        ELSE "pool_test_cases"]
    /\ UNCHANGED <<suite, tables, events, cache, next_id, now, cut, faults, done>>
    /\ UNCHANGED <<tc_obj, loop>>
    /\ UNCHANGED result

\* faulty variant of TestDesignTasks: only the active rows are carried
TestDesignTasksActive(td_rows, target_version) ==
    {[n |-> row.id, kind |-> "test_designs", stage |-> "deactivate",
      req_code |-> "", testing_type |-> row.testing_type, requirement_id |-> 0,
      item |-> ClonedItem(row.content), version |-> target_version] :
        row \in {x \in td_rows : x.active}}

\* items, lines 420-427
TestDesignTasks(td_rows, target_version) ==
    {[n |-> row.id, kind |-> "test_designs", stage |-> "deactivate",
      req_code |-> "", testing_type |-> row.testing_type, requirement_id |-> 0,
      item |-> ClonedItem(row.content), version |-> target_version] :
        row \in td_rows}

\* 3) test designs, lines 399-434: the rows go to write_test_design_bulk
CloneTestDesigns ==
    /\ pc.stage = "clone_test_designs"
    /\ LET items == IF HasRows(test_designs, pc.version) THEN {}
                    ELSE TestDesignTasks(RowsAt(test_designs, pc.src), pc.version)
       IN /\ pool' = items
          /\ pc' = [pc EXCEPT !.stage = IF items = {} THEN "clone_viewpoints"
                                        ELSE "pool_test_designs"]
    /\ UNCHANGED <<suite, tables, events, cache, next_id, now, cut, faults, done>>
    /\ UNCHANGED <<tc_obj, loop>>
    /\ UNCHANGED result

\* items, lines 458-466
ViewpointTasks(vp_rows, target_version) ==
    {[n |-> row.id, kind |-> "viewpoints", stage |-> "deactivate",
      req_code |-> "", testing_type |-> "", requirement_id |-> row.requirement_id,
      item |-> ClonedItem(row.content), version |-> target_version] :
        row \in vp_rows}

\* 4) viewpoints, lines 437-473: the rows go to write_viewpoints_bulk
CloneViewpoints ==
    /\ pc.stage = "clone_viewpoints"
    /\ LET items == IF HasRows(viewpoints, pc.version) THEN {}
                    ELSE ViewpointTasks(RowsAt(viewpoints, pc.src), pc.version)
       IN /\ pool' = items
          /\ pc' = [pc EXCEPT !.stage = IF items = {} THEN "event"
                                        ELSE "pool_viewpoints"]
    /\ UNCHANGED <<suite, tables, events, cache, next_id, now, cut, faults, done>>
    /\ UNCHANGED <<tc_obj, loop>>
    /\ UNCHANGED result

\* ---- the bulk writers' pool tasks: one row-store call per step ----
Moved(t, stage, requirement_id) ==
    (pool \ {t}) \cup {[t EXCEPT !.stage = stage, !.requirement_id = requirement_id]}

\* write_testcases_bulk._task -> write_testcases, lines 316 and 341-345;
\* a generation worker reaches the same write_testcases (agent.py 603-612)
TestcaseTaskDeactivate ==
    \E t \in pool :
        /\ t.kind \in {"test_cases", "worker"} /\ t.stage = "deactivate"
        /\ \E req_row_id \in Candidates(requirements, t.req_code) :
            /\ test_cases' = DeactivateTestcases(test_cases, req_row_id)
            /\ pool' = Moved(t, "insert", req_row_id)
        /\ UNCHANGED <<suite, requirements, test_designs, viewpoints, events,
                       cache, next_id, pc, now, cut, faults, done>>
    /\ UNCHANGED <<tc_obj, loop>>
    /\ UNCHANGED result

\* write_testcases, lines 346-355
TestcaseTaskInsert ==
    \E t \in pool :
        /\ t.kind \in {"test_cases", "worker"} /\ t.stage = "insert"
        /\ test_cases' = test_cases \cup
                           {TcRow(next_id, t.requirement_id, t.item, t.version)}
        /\ next_id' = next_id + 1
        /\ pool' = Moved(t, "done", t.requirement_id)
        /\ UNCHANGED <<suite, requirements, test_designs, viewpoints, events,
                       cache, pc, now, cut, faults, done>>
    /\ UNCHANGED <<tc_obj, loop>>
    /\ UNCHANGED result

\* write_test_design_bulk._task -> write_test_design, lines 469-473
TestDesignTaskDeactivate ==
    \E t \in pool :
        /\ t.kind = "test_designs" /\ t.stage = "deactivate"
        /\ test_designs' = DeactivateTestDesigns(test_designs, t.testing_type)
        /\ pool' = Moved(t, "insert", t.requirement_id)
        /\ UNCHANGED <<suite, requirements, test_cases, viewpoints, events,
                       cache, next_id, pc, now, cut, faults, done>>
    /\ UNCHANGED <<tc_obj, loop>>
    /\ UNCHANGED result

\* write_test_design, lines 474-481
TestDesignTaskInsert ==
    \E t \in pool :
        /\ t.kind = "test_designs" /\ t.stage = "insert"
        /\ test_designs' = test_designs \cup
                             {TdRow(next_id, t.testing_type, t.item, t.version)}
        /\ next_id' = next_id + 1
        /\ pool' = Moved(t, "done", t.requirement_id)
        /\ UNCHANGED <<suite, requirements, test_cases, viewpoints, events,
                       cache, pc, now, cut, faults, done>>
    /\ UNCHANGED <<tc_obj, loop>>
    /\ UNCHANGED result

\* write_viewpoints_bulk._task -> write_viewpoints, lines 619-640
ViewpointTaskDeactivate ==
    \E t \in pool :
        /\ t.kind = "viewpoints" /\ t.stage = "deactivate"
        /\ \E pick \in Picks(requirements) :
            LET rid == ResolveRequirementId(pick, t.requirement_id, t.item.content)
            IN /\ viewpoints' = DeactivateViewpoints(viewpoints, rid,
                                                     DeriveItemName(t.item.content))
               /\ pool' = Moved(t, "insert", rid)
        /\ UNCHANGED <<suite, requirements, test_cases, test_designs, events,
                       cache, next_id, pc, now, cut, faults, done>>
    /\ UNCHANGED <<tc_obj, loop>>
    /\ UNCHANGED result

\* write_viewpoints, lines 641-650
ViewpointTaskInsert ==
    \E t \in pool :
        /\ t.kind = "viewpoints" /\ t.stage = "insert"
        /\ viewpoints' = viewpoints \cup
                           {VpRow(next_id, t.requirement_id, t.item, t.version)}
        /\ next_id' = next_id + 1
        /\ pool' = Moved(t, "done", t.requirement_id)
        /\ UNCHANGED <<suite, requirements, test_cases, test_designs, events,
                       cache, pc, now, cut, faults, done>>
    /\ UNCHANGED <<tc_obj, loop>>
    /\ UNCHANGED result

\* the with-block of the bulk writer ends when every task has finished
PoolJoin ==
    /\ pc.stage \in {"pool_test_cases", "pool_test_designs", "pool_viewpoints"}
    /\ pool # {}
    /\ \A t \in pool : t.stage = "done"
    /\ pool' = {}
    /\ pc' = [pc EXCEPT !.stage =
                CASE pc.stage = "pool_test_cases" -> "clone_test_designs"
                  [] pc.stage = "pool_test_designs" -> "clone_viewpoints"
                  [] OTHER -> "event"]
    /\ UNCHANGED <<suite, tables, events, cache, next_id, now, cut, faults, done>>
    /\ UNCHANGED <<tc_obj, loop>>
    /\ UNCHANGED result

\* _increment_suite_version, lines 175-188
EmitNewVersionEvent ==
    /\ pc.stage = "event"
    /\ events' = Append(events, [type |-> "new_version", version |-> pc.version,
                                 description |-> cut.description])
    /\ cut' = [cut EXCEPT !.event_emitted = TRUE]
    /\ pc' = [pc EXCEPT !.stage = "persist"]
    /\ UNCHANGED <<suite, tables, cache, next_id, pool, now, faults, done>>
    /\ UNCHANGED <<tc_obj, loop>>
    /\ UNCHANGED result


\* ---- tools: the persist step after _increment_suite_version returned ----
\* extract_and_store_requirements, lines 279-290
PersistRequirements ==
    /\ pc.stage = "persist" /\ pc.op = "extract"
    /\ LET reqs == [i \in DOMAIN pc.arg |-> Item(pc.arg[i])]
           res == WriteRequirements(requirements, next_id, reqs, pc.version)
       IN /\ requirements' = res.tbl
          /\ next_id' = res.nid
    /\ Finish(pc.op, 0, pc.version)
    /\ UNCHANGED <<suite, test_cases, test_designs, viewpoints, events, cache,
                   pool, now, cut, faults>>
    /\ UNCHANGED <<tc_obj, loop>>
    /\ result' = Returned(pc.op)

\* generate_test_design, lines 2200-2213
PersistTestDesign ==
    /\ pc.stage = "persist" /\ pc.op = "test_design"
    /\ LET res == WriteTestDesign(test_designs, next_id, Item(pc.arg),
                                  "integration", pc.version)
       IN /\ test_designs' = res.tbl
          /\ next_id' = res.nid
    /\ Finish(pc.op, 0, pc.version)
    /\ UNCHANGED <<suite, requirements, test_cases, viewpoints, events, cache,
                   pool, now, cut, faults>>
    /\ UNCHANGED <<tc_obj, loop>>
    /\ result' = Returned(pc.op)

\* generate_viewpoints, lines 2389-2403
PersistViewpoints ==
    /\ pc.stage = "persist" /\ pc.op = "viewpoints"
    /\ \E pick \in Picks(requirements) :
        LET items == [i \in DOMAIN pc.arg |-> Item(pc.arg[i])]
            res == WriteViewpoints(viewpoints, next_id, pick, 0, items, pc.version)
        IN /\ viewpoints' = res.tbl
           /\ next_id' = res.nid
    /\ Finish(pc.op, 0, pc.version)
    /\ UNCHANGED <<suite, requirements, test_cases, test_designs, events, cache,
                   pool, now, cut, faults>>
    /\ UNCHANGED <<tc_obj, loop>>
    /\ result' = Returned(pc.op)

\* generate_and_store_testcases_for_req, lines 748-759
PersistTestcases ==
    /\ pc.stage = "persist" /\ pc.op \in {"testcases", "integration"}
    /\ \E pick \in Picks(requirements) :
        LET res == WriteTestcases(requirements, test_cases, next_id, pick,
                                  pc.arg.req_id, Item(pc.arg.tc_obj), pc.version)
        IN /\ requirements' = res.requirements
           /\ test_cases' = res.test_cases
           /\ next_id' = res.nid
    /\ Finish(pc.op, 0, pc.version)
    /\ UNCHANGED <<suite, test_designs, viewpoints, events, cache,
                   pool, now, cut, faults>>
    /\ UNCHANGED <<tc_obj, loop>>
    /\ result' = Returned(pc.op)

\* step 4 of the edit as it would be if the delete of line 1601 dropped
\* every row of the edit version, whichever requirement it belongs to
RECURSIVE ApplyEditsWholeVersion(_, _, _, _, _, _, _)
ApplyEditsWholeVersion(reqs, tcs, nid, resolve, pick, edits, edit_suite_version) ==
    IF edits = <<>> THEN [requirements |-> reqs, test_cases |-> tcs, nid |-> nid]
    ELSE LET e == Head(edits)
             resolved_req_id == IF e.req_code = "" THEN 0 ELSE resolve[e.req_code]
             kept == {r \in tcs : r.version # edit_suite_version}
             res == WriteTestcases(reqs, kept, nid, pick, e.req_code,
                                   Item(e.new_testcases), edit_suite_version)
         IN IF resolved_req_id = 0
              THEN ApplyEditsWholeVersion(reqs, tcs, nid, resolve, pick, Tail(edits),
                                          edit_suite_version)
              ELSE ApplyEditsWholeVersion(res.requirements, res.test_cases, res.nid,
                                          resolve, pick, Tail(edits), edit_suite_version)

\* step 4 of edit_testcases_for_req, lines 1560-1613, over the edits in
\* order: resolve[c] is the row req_by_code holds for code c, pick[c] the
\* row the writer's own lookup returns
RECURSIVE ApplyEdits(_, _, _, _, _, _, _)
ApplyEdits(reqs, tcs, nid, resolve, pick, edits, edit_suite_version) ==
    IF edits = <<>> THEN [requirements |-> reqs, test_cases |-> tcs, nid |-> nid]
    ELSE LET e == Head(edits)
             resolved_req_id == IF e.req_code = "" THEN 0 ELSE resolve[e.req_code]
             new_testcases == IF IsDict(e.new_testcases)
                                THEN [e.new_testcases EXCEPT !.version = edit_suite_version]
                                ELSE e.new_testcases
             kept == {r \in tcs : ~(/\ r.requirement_id = resolved_req_id
                                    /\ edit_suite_version # 0
                                    /\ r.version = edit_suite_version)}
             res == WriteTestcases(reqs, kept, nid, pick, e.req_code,
                                   Item(new_testcases), edit_suite_version)
         IN IF resolved_req_id = 0
              THEN ApplyEdits(reqs, tcs, nid, resolve, pick, Tail(edits),
                              edit_suite_version)
              ELSE ApplyEdits(res.requirements, res.test_cases, res.nid, resolve,
                              pick, Tail(edits), edit_suite_version)

\* edit_testcases_for_req, lines 1359-1634
PersistEdits ==
    /\ pc.stage = "persist" /\ pc.op = "edit"
    /\ \E resolve \in Picks(requirements), pick \in Picks(requirements) :
        LET res == ApplyEdits(requirements, test_cases, next_id, resolve, pick,
                              pc.arg, pc.version)
        IN /\ requirements' = res.requirements
           /\ test_cases' = res.test_cases
           /\ next_id' = res.nid
    /\ Finish(pc.op, 0, pc.version)
    /\ UNCHANGED <<suite, test_designs, viewpoints, events, cache,
                   pool, now, cut, faults>>
    /\ UNCHANGED <<tc_obj, loop>>
    /\ result' = IF requirements = {} THEN [Returned(pc.op) EXCEPT !.status = "no_requirements"]
                                        ELSE Returned(pc.op)

\* restore_suite_version, lines 1309-1325
FinishRestore ==
    /\ pc.stage = "persist" /\ pc.op = "restore"
    /\ events' = Append(events, [type |-> "new_version", version |-> pc.version,
                                 description |-> RestoredFrom(pc.arg)])
    /\ Finish(pc.op, pc.arg, pc.version)
    /\ UNCHANGED <<suite, tables, cache, next_id, pool, now, cut, faults>>
    /\ UNCHANGED <<tc_obj, loop>>
    /\ result' = Returned(pc.op)

\* ---- tools: the calls that end in a raise ----
\* a call that raises before it has touched the suite
Fails(op, error) ==
    /\ pc.stage = "idle"
    /\ result' = Raised(op, error)
    /\ UNCHANGED <<suite, tables, events, cache, next_id, pc, pool, now, cut,
                   faults, done, tc_obj, loop>>

\* extract_and_store_requirements, lines 198-200: the suite has no .txt document
ExtractRequirementsNoDocs == Fails("extract", "No .txt docs in suite.")

\* extract_and_store_requirements, lines 261-272: the reply is parsed before
\* the cache is set and the version is cut
ExtractRequirementsInvalidJSON == Fails("extract", "Invalid JSON from extractor")

\* generate_test_design, lines 2185-2215: parsed before the cut
GenerateTestDesignInvalidJSON ==
    Fails("test_design", "Invalid JSON from test design generator")

\* generate_viewpoints, lines 2374-2404: parsed before the cut
GenerateViewpointsInvalidJSON ==
    Fails("viewpoints", "Invalid JSON from viewpoints generator")

\* generate_and_store_testcases_for_req with a req_id, lines 635-639
GenerateTestcasesNotFound ==
    /\ \E req_id \in ReqCodes : \A i \in 1..Len(cache) : cache[i].id # req_id
    /\ Fails("testcases", "Requirement not found.")

\* generate_and_store_testcases_for_req with a req_id, lines 677-743:
\* parsed before the cut
GenerateTestcasesInvalidJSON ==
    /\ Len(cache) >= 1
    /\ Fails("testcases", "Invalid JSON from testcase writer")

\* edit_testcases_for_req, lines 1348-1356
EditTestcasesNoNote == Fails("edit", "version_note is required (3 words)")

\* edit_testcases_for_req, lines 1528-1543: the reply is parsed after the
\* cut of line 1357 and after the requirement rows were found
EditTestcasesInvalidJSON ==
    /\ pc.stage = "persist" /\ pc.op = "edit"
    /\ requirements # {}
    /\ result' = Raised("edit", "Invalid JSON from bulk edit generator")
    /\ Finish(pc.op, 0, pc.version)
    /\ UNCHANGED <<suite, tables, events, cache, next_id, pool, now, cut,
                   faults, tc_obj, loop>>

\* ---- bulk generation: one worker per requirement ----
\* max_workers = min(6, max(1, len(targets))), agent.py lines 619 and 1011
MaxWorkers == 6
Min(a, b) == IF a < b THEN a ELSE b

\* targets, lines 482-486: the cached requirements that have an id
CachedTargets ==
    LET ids == [i \in 1..Len(cache) |-> cache[i].id]
    IN SelectSeq(ids, LAMBDA c : c # "")

\* reqs and targets of the integration generator, lines 774-805: the cache,
\* else every requirement row of the suite (rows is one order of the select)
IntegrationTargets(rows) ==
    IF cache # <<>> THEN CachedTargets
    ELSE LET ids == [i \in DOMAIN rows |->
                       IF rows[i].content.id # "" THEN rows[i].content.id
                                                  ELSE rows[i].req_code]
         IN SelectSeq(ids, LAMBDA c : c # "")

\* a row a generator read for its prompt
Ref(kind, r) == [kind |-> kind, id |-> r.id, version |-> r.version]

\* the test design the integration generator loads, lines 815-852 and
\* 1054-1088: the row whose id generate_test_design cached in this process
\* (the newest row it inserted itself); without a cached id, the newest
\* integration row
DesignReads(tds) ==
    LET own == {r \in tds : r.origin.none}
        cached == {r \in own : \A q \in own : q.id <= r.id}
        typed == {r \in tds : r.testing_type = "integration"}
        latest == {r \in typed : \A q \in typed : q.id <= r.id}
    IN IF cached # {} THEN {{Ref("test_designs", r)} : r \in cached}
       ELSE IF latest # {} THEN {{Ref("test_designs", r)} : r \in latest}
       ELSE {{}}

\* the requirement row a limit(1) lookup by req_code returns; 0 is none
RowLookup(reqs, req_code) ==
    IF Candidates(reqs, req_code) = {} THEN {0} ELSE Candidates(reqs, req_code)

\* the viewpoint rows of a requirement row, lines 895-903 and 1101-1110:
\* selected by requirement_id alone
ViewpointReads(vps, req_row_id) ==
    {Ref("viewpoints", r) : r \in {x \in vps : req_row_id # 0 /\ x.requirement_id = req_row_id}}

\* faulty variant of WorkerTasks: each worker numbers its own version
WorkerTasksOwnVersion(targets, version_now, testing_type, call, linked) ==
    {[n |-> i, kind |-> "worker", stage |-> "queued", req_code |-> targets[i],
      testing_type |-> testing_type, requirement_id |-> 0,
      item |-> Item(TcContent(targets[i], Fresh(call, i), 0)),
      version |-> version_now + i - 1, linked |-> linked] : i \in DOMAIN targets}

\* executor.submit(_worker, t) for t in targets, lines 620-621: every worker
\* closes over the one version_now
WorkerTasks(targets, version_now, testing_type, call, linked) ==
    {[n |-> i, kind |-> "worker", stage |-> "queued", req_code |-> targets[i],
      testing_type |-> testing_type, requirement_id |-> 0,
      item |-> Item(TcContent(targets[i], Fresh(call, i), 0)),
      version |-> version_now, linked |-> linked] : i \in DOMAIN targets}

\* the bulk branch up to the cut, lines 481-495 and 801-814
GenerateBulk(op, description, targets) ==
    /\ pc.stage = "idle"
    /\ targets # <<>>
    /\ \E read_ok, write_ok \in BOOLEAN :
        LET arg == [targets |-> targets, results |-> <<>>, errors |-> <<>>]
        IN \/ /\ IncrementState(description, read_ok, write_ok)
              /\ pc' = AfterWrite(op, read_ok, 0, arg)
           \/ /\ read_ok /\ write_ok
              /\ IncrementRaises(description)
              /\ pc' = AfterRaise(op, arg)
    /\ UNCHANGED <<tables, events, cache, next_id, pool, done, tc_obj, loop>>
    /\ result' = NoResult

\* generate_and_store_testcases_for_req without req_id, lines 481-495
GenerateTestcasesBulk ==
    GenerateBulk("testcases_bulk", Desc("Generated test cases for all requirements"),
                 CachedTargets)

\* generate_integration_testcases_for_req without req_id, lines 774-814
GenerateIntegrationTestcasesBulk ==
    \E rows \in (IF cache # <<>> THEN {<<>>} ELSE Orders(requirements)) :
        GenerateBulk("integration_bulk",
                     Desc("Generated integration test cases for all requirements"),
                     IntegrationTargets(rows))

\* the pool is filled, lines 617-621 and 1009-1013; the integration path
\* has loaded its test design just before, lines 815-852
StartWorkers ==
    /\ pc.stage = "persist" /\ pc.op \in {"testcases_bulk", "integration_bulk"}
    /\ \E linked \in (IF pc.op = "integration_bulk" THEN DesignReads(test_designs)
                                                     ELSE {{}}) :
        pool' = WorkerTasks(pc.arg.targets, pc.version,
                            IF pc.op = "integration_bulk" THEN "integration" ELSE "",
                            now, linked)
    /\ pc' = [pc EXCEPT !.stage = "workers"]
    /\ UNCHANGED <<suite, tables, events, cache, next_id, now, cut, faults,
                   done, tc_obj, loop, result>>

Running(t) == t.kind = "worker" /\ t.stage \in {"call", "deactivate", "insert"}

\* a queued worker gets a thread while fewer than max_workers run; the
\* integration worker first reads its requirement row and the viewpoints
\* hanging on it, lines 880-911
WorkerStart ==
    /\ \E t \in pool :
        /\ t.kind = "worker" /\ t.stage = "queued"
        /\ Cardinality({x \in pool : Running(x)}) < Min(MaxWorkers, Cardinality(pool))
        /\ \E req_row_id \in RowLookup(requirements, t.req_code) :
            pool' = (pool \ {t}) \cup
                {[t EXCEPT !.stage = "call",
                           !.linked = IF t.testing_type = "integration"
                                        THEN @ \cup ViewpointReads(viewpoints, req_row_id)
                                        ELSE @]}
    /\ UNCHANGED <<suite, tables, events, cache, next_id, pc, now, cut, faults,
                   done, tc_obj, loop, result>>

\* the generation call of a worker returns, lines 541-601 and 976-994: the
\* reply parses to a dict, or the worker raises ValueError
WorkerReply ==
    /\ \E t \in pool :
        /\ t.kind = "worker" /\ t.stage = "call"
        /\ \E parses \in BOOLEAN :
            pool' = Moved(t, IF parses THEN "deactivate" ELSE "raised", 0)
    /\ UNCHANGED <<suite, tables, events, cache, next_id, pc, now, cut, faults,
                   done, tc_obj, loop, result>>

\* faulty variant of Collected: every finished worker counts as a success
CollectedAsOk(acc, t) == [acc EXCEPT !.results = Append(@, t.req_code)]

\* the body of the as_completed loop, lines 622-627
Collected(acc, t) ==
    IF t.stage = "raised" THEN [acc EXCEPT !.errors = Append(@, t.req_code)]
                          ELSE [acc EXCEPT !.results = Append(@, t.req_code)]

\* as_completed yields a finished future, lines 622-627 and 1014-1019
CollectResult ==
    /\ pc.stage = "workers"
    /\ \E t \in pool :
        /\ t.kind = "worker" /\ t.stage \in {"done", "raised"}
        /\ pc' = [pc EXCEPT !.arg = Collected(pc.arg, t)]
        /\ pool' = Moved(t, IF t.stage = "raised" THEN "failed" ELSE "collected",
                         t.requirement_id)
    /\ UNCHANGED <<suite, tables, events, cache, next_id, now, cut, faults,
                   done, tc_obj, loop, result>>

\* the with-block ends and the summary is returned, lines 628-633 and 1020-1025
BulkReturn ==
    /\ pc.stage = "workers"
    /\ \A t \in pool : t.stage \in {"collected", "failed"}
    /\ result' = [Returned(pc.op) EXCEPT !.results = pc.arg.results,
                                         !.errors = pc.arg.errors]
    /\ pool' = {}
    /\ Finish(pc.op, 0, pc.version)
    /\ UNCHANGED <<suite, tables, events, cache, next_id, now, cut, faults, tc_obj, loop>>

\* generate_integration_testcases_for_req with a req_id, lines 1027-1287:
\* the requirement row, the test design and the viewpoints are read first
GenerateIntegrationTestcases ==
    /\ pc.stage = "idle"
    /\ \E i \in 1..Len(cache), read_ok, write_ok \in BOOLEAN,
          design \in DesignReads(test_designs) :
      \E req_row_id \in RowLookup(requirements, cache[i].id) :
        LET arg == [req_id |-> cache[i].id,
                    tc_obj |-> TcContent(cache[i].id, Fresh(now + 1, 1), 0),
                    linked |-> design \cup ViewpointReads(viewpoints, req_row_id)]
        IN \/ /\ IncrementState(Desc("Generated integration test cases"), read_ok, write_ok)
              /\ pc' = AfterWrite("integration", read_ok, 0, arg)
           \/ /\ read_ok /\ write_ok
              /\ IncrementRaises(Desc("Generated integration test cases"))
              /\ pc' = AfterRaise("integration", arg)
    /\ UNCHANGED <<tables, events, cache, next_id, pool, done, tc_obj, loop>>
    /\ result' = NoResult

Next ==
    \/ ExtractRequirements
    \/ GenerateTestDesign
    \/ GenerateViewpoints
    \/ GenerateTestcases
    \/ EditTestcases
    \/ RestoreSuiteVersion
    \/ SaveStateAtRunEnd
    \/ CloneRequirements
    \/ CloneTestCases
    \/ CloneTestDesigns
    \/ CloneViewpoints
    \/ TestcaseTaskDeactivate
    \/ TestcaseTaskInsert
    \/ TestDesignTaskDeactivate
    \/ TestDesignTaskInsert
    \/ ViewpointTaskDeactivate
    \/ ViewpointTaskInsert
    \/ PoolJoin
    \/ EmitNewVersionEvent
    \/ PersistRequirements
    \/ PersistTestDesign
    \/ PersistViewpoints
    \/ PersistTestcases
    \/ PersistEdits
    \/ FinishRestore
    \/ ExtractRequirementsNoDocs
    \/ ExtractRequirementsInvalidJSON
    \/ GenerateTestDesignInvalidJSON
    \/ GenerateViewpointsInvalidJSON
    \/ GenerateTestcasesNotFound
    \/ GenerateTestcasesInvalidJSON
    \/ EditTestcasesNoNote
    \/ EditTestcasesInvalidJSON

Spec == Init /\ [][Next]_vars

\* ---- the bulk and integration generators on a two-requirement suite ----
BulkNext ==
    \/ GenerateTestDesign
    \/ GenerateViewpoints
    \/ GenerateTestcasesBulk
    \/ GenerateIntegrationTestcasesBulk
    \/ GenerateIntegrationTestcases
    \/ CloneRequirements
    \/ CloneTestCases
    \/ CloneTestDesigns
    \/ CloneViewpoints
    \/ TestcaseTaskDeactivate
    \/ TestcaseTaskInsert
    \/ TestDesignTaskDeactivate
    \/ TestDesignTaskInsert
    \/ ViewpointTaskDeactivate
    \/ ViewpointTaskInsert
    \/ PoolJoin
    \/ EmitNewVersionEvent
    \/ PersistTestDesign
    \/ PersistViewpoints
    \/ PersistTestcases
    \/ StartWorkers
    \/ WorkerStart
    \/ WorkerReply
    \/ CollectResult
    \/ BulkReturn

\* the suite after extract_and_store_requirements has stored the two
\* requirements of PairCodeLists as version 1
PairReqs == CHOOSE reqs \in ReqListsOf(PairCodeLists, 1) : TRUE

BulkInit ==
    /\ latest_version = 1
    /\ version_history = <<[version |-> 1, description |-> Desc("Requirements extracted"),
                            timestamp |-> 1]>>
    /\ agent_state = [team |-> "absent",
                      wraps |-> <<[latest_version |-> 1, version_history |-> <<>>]>>]
    /\ requirements = WriteRequirements({}, 1, [i \in DOMAIN PairReqs |-> Item(PairReqs[i])],
                                        1).tbl
    /\ test_cases = {}
    /\ test_designs = {}
    /\ viewpoints = {}
    /\ events = <<[type |-> "new_version", version |-> 1,
                   description |-> Desc("Requirements extracted")]>>
    /\ cache = PairReqs
    /\ next_id = 3
    /\ pc = Idle
    /\ pool = {}
    /\ now = 1
    /\ cut = [NoCut EXCEPT !.n = 1, !.ret = 1, !.event_emitted = TRUE,
                           !.description = Desc("Requirements extracted")]
    /\ faults = 0
    /\ done = <<[op |-> "extract", src |-> 0, version |-> 1]>>
    /\ result = Returned("extract")
    /\ tc_obj = NoTcObj
    /\ status = "idle"
    /\ run = NoRun
    /\ cutters = NoCutters

BulkSpec == BulkInit /\ [][BulkNext]_vars

\* ---- edits on a suite with two requirements ----
\* single test-case generation and edits after the two-requirement
\* extraction of BulkInit; the suite has no test design and no viewpoint,
\* so their clone tasks never exist
EditNext ==
    \/ GenerateTestcases
    \/ EditTestcases
    \/ CloneRequirements
    \/ CloneTestCases
    \/ CloneTestDesigns
    \/ CloneViewpoints
    \/ TestcaseTaskDeactivate
    \/ TestcaseTaskInsert
    \/ PoolJoin
    \/ EmitNewVersionEvent
    \/ PersistTestcases
    \/ PersistEdits
    \/ EditTestcasesNoNote
    \/ EditTestcasesInvalidJSON

EditSpec == BulkInit /\ [][EditNext]_vars

\* ---- _increment_suite_version called by two requests at once ----
\* Two runs on the same suite (two POST /run requests) each call
\* _increment_suite_version; a call is three steps, the state read, the
\* state write and the rest.  The suite has no rows, so the clone-forward
\* of the third step finds nothing to copy.
Requests == {1, 2}
CutDescription(c) == Desc(IF c = 1 THEN "first request" ELSE "second request")

\* lines 132-159: prior_state is read, new_version and hist are computed
CutRead(c) ==
    /\ cutters[c].stage \in {"idle", "returned"}
    /\ now < MaxCuts
    /\ now' = now + 1
    /\ cutters' = [cutters EXCEPT ![c] =
                     [stage |-> "read", prior_lv |-> latest_version,
                      prior_hist |-> version_history, prior_agent |-> agent_state,
                      new_version |-> latest_version + 1,
                      hist |-> Append(version_history,
                                      [version |-> latest_version + 1,
                                       description |-> CutDescription(c),
                                       timestamp |-> now + 1]),
                      ret |-> 0]]
    /\ UNCHANGED <<suite, tables, events, cache, next_id, pc, pool, cut, faults,
                   done, result, tc_obj, status, run>>

\* the state write as it would be if it were serialised with the read: the
\* version and the history are computed from the state stored at the
\* time of the write
CutWriteSerialized(c) ==
    /\ cutters[c].stage = "read"
    /\ latest_version' = latest_version + 1
    /\ version_history' = Append(version_history,
                                 [version |-> latest_version + 1,
                                  description |-> CutDescription(c),
                                  timestamp |-> now])
    /\ agent_state' = [team |-> agent_state.team,
                       wraps |-> <<[latest_version |-> latest_version + 1,
                                    version_history |-> version_history]>>
                                 \o agent_state.wraps]
    /\ cutters' = [cutters EXCEPT ![c].stage = "written",
                                  ![c].new_version = latest_version + 1]
    /\ UNCHANGED <<tables, events, cache, next_id, pc, pool, now, cut, faults,
                   done, result, tc_obj, status, run>>

\* lines 160-165 and _write_full_suite_state, lines 2712-2756: the three
\* keys computed from prior_state replace the stored ones, whatever the
\* stored state is by now
CutWrite(c) ==
    /\ cutters[c].stage = "read"
    /\ latest_version' = cutters[c].new_version
    /\ version_history' = cutters[c].hist
    /\ agent_state' = [team |-> cutters[c].prior_agent.team,
                       wraps |-> <<[latest_version |-> cutters[c].new_version,
                                    version_history |-> cutters[c].prior_hist]>>
                                 \o cutters[c].prior_agent.wraps]
    /\ cutters' = [cutters EXCEPT ![c].stage = "written"]
    /\ UNCHANGED <<tables, events, cache, next_id, pc, pool, now, cut, faults,
                   done, result, tc_obj, status, run>>

\* lines 166-188: clone-forward (no rows), the new_version event, return
CutReturn(c) ==
    /\ cutters[c].stage = "written"
    /\ events' = Append(events, [type |-> "new_version",
                                 version |-> cutters[c].new_version,
                                 description |-> CutDescription(c)])
    /\ cutters' = [cutters EXCEPT ![c].stage = "returned",
                                  ![c].ret = cutters[c].new_version]
    /\ UNCHANGED <<suite, tables, cache, next_id, pc, pool, now, cut, faults,
                   done, result, tc_obj, status, run>>

RaceNext ==
    \E c \in Requests :
        \/ CutRead(c)
        \/ CutWrite(c)
        \/ CutReturn(c)

RaceSpec == Init /\ [][RaceNext]_vars

\* ---- the role loop: run_stream_with_suite and the Swarm of the team ----
\* handoffs=[...] of the four AssistantAgents, lines 2615-2663
Handoffs(role) ==
    CASE role = "planner" -> {"fetcher", "requirements_extractor", "testcase_writer"}
      [] role = "fetcher" -> {"planner", "requirements_extractor"}
      [] role = "requirements_extractor" -> {"testcase_writer", "planner"}
      [] OTHER -> {"planner"}

\* tools=[...] of the four AssistantAgents; the versioned tools carry the
\* names pc.op gives them
Tools(role) ==
    CASE role = "planner" ->
           {"ask_user", "get_requirements_info", "get_testcases_info",
            "identify_gaps", "restore"}
      [] role = "fetcher" -> {"store_docs_from_blob"}
      [] role = "requirements_extractor" ->
           {"generate_preview", "extract", "test_design", "viewpoints", "ask_user"}
      [] OTHER ->
           {"generate_preview", "testcases", "generate_direct_testcases_on_docs",
            "edit", "integration"}

\* the versioned tools a role calls in this specification (the bulk and
\* integration generators have their own)
SteppedTools == {"extract", "test_design", "viewpoints", "testcases", "edit", "restore"}

\* ask_user, line 2416
allowed_types ==
    {"sample_confirmation", "quality_confirmation", "requirements_feedback",
     "requirements_sample_offer", "testcases_sample_offer", "testing_type_choice",
     "gaps_follow_up"}
\* the event_type arguments a role passes; "other" is not an allowed one
EventTypeArgs == {"requirements_feedback", "other"}

\* the messages a role's turn yields: a text, a tool call summary or a
\* handoff; mentions says whether the content holds the token TERMINATE
TextMessage(mentions) == [type |-> "text", mentions |-> mentions, target |-> "none"]
ToolCallSummary(mentions) == [type |-> "tool", mentions |-> mentions, target |-> "none"]
HandoffMessage(target) == [type |-> "handoff", mentions |-> FALSE, target |-> target]

\* the termination condition as it would be without TextMentionTermination
HandoffTerminationOnly(msg) == msg.type = "handoff" /\ msg.target = "user"

\* termination = TextMentionTermination("TERMINATE") | HandoffTermination(target="user")
termination(msg) ==
    \/ msg.mentions
    \/ msg.type = "handoff" /\ msg.target = "user"

\* the loop after the current speaker's turn yielded msg: the condition is
\* evaluated on the message; a handoff makes its target the next speaker,
\* any other message leaves the speaker in place.  halted remembers that a
\* message held the sentinel or was handed to the user.
Yielded(r, msg) ==
    [r EXCEPT !.phase = IF termination(msg) THEN "stopped" ELSE "turn",
              !.speaker = IF msg.type = "handoff" /\ msg.target \in Roles
                            THEN msg.target ELSE @,
              !.halted = \/ msg.mentions
                         \/ msg.type = "handoff" /\ msg.target = "user"]

\* what save_state returns: the team state, of which the model keeps the
\* current speaker
TeamState(speaker) == [team |-> speaker, wraps |-> <<>>]
IsTeamState(s) == s.team \in Roles /\ s.wraps = <<>>
NoState == [team |-> "absent", wraps |-> <<>>]

\* run_stream_with_suite, lines 2762-2769: a request of one kind arrives,
\* the team is built and the status set
StartRun ==
    /\ run.phase \in {"none", "crashed"}
    /\ run.n < MaxRuns
    /\ pc.stage = "idle"
    /\ \E task \in {"generate", "edit"} :
        run' = [NoRun EXCEPT !.n = run.n + 1, !.phase = "chatting", !.task = task,
                             !.saved = run.saved, !.saved_run = run.saved_run,
                             !.save_ok = run.save_ok]
    /\ status' = "chatting"
    /\ UNCHANGED <<suite, tables, events, cache, next_id, pc, pool, now, cut, faults,
                   done, result, tc_obj, cutters>>

\* lines 2771-2773: a failed read makes _get_suite_agent_state return None
\* and .get raise; an absent agent_state is not loaded; a team state is
\* loaded; for any other dict load_state either raises or leaves the new
\* team as it is
LoadState ==
    /\ run.phase = "chatting"
    /\ \E read_ok, accepted \in BOOLEAN :
        /\ faults' = faults + (IF read_ok THEN 0 ELSE 1)
        /\ faults' <= MaxFaults
        /\ run' = IF ~read_ok
                    THEN [run EXCEPT !.phase = "crashed"]
                  ELSE IF agent_state = NoState
                    THEN [run EXCEPT !.phase = "turn"]
                  ELSE IF IsTeamState(agent_state)
                    THEN [run EXCEPT !.phase = "turn", !.loaded = agent_state,
                                     !.speaker = agent_state.team]
                  ELSE [run EXCEPT !.phase = IF accepted THEN "turn" ELSE "crashed",
                                   !.loaded = agent_state]
    /\ UNCHANGED <<suite, tables, events, cache, next_id, pc, pool, now, cut,
                   done, result, tc_obj, status, cutters>>

\* the current speaker replies with a text
RoleReplies ==
    /\ run.phase = "turn"
    /\ \E mentions \in BOOLEAN :
        /\ run' = Yielded(run, TextMessage(mentions))
    /\ UNCHANGED <<suite, tables, events, cache, next_id, pc, pool, now, cut, faults,
                   done, result, tc_obj, status, cutters>>

\* the current speaker calls one of its transfer tools
RoleHandsOff ==
    /\ run.phase = "turn"
    /\ \E target \in Handoffs(run.speaker) :
        run' = Yielded(run, HandoffMessage(target))
    /\ UNCHANGED <<suite, tables, events, cache, next_id, pc, pool, now, cut, faults,
                   done, result, tc_obj, status, cutters>>

\* PLANNER_SYSTEM_MESSAGE step 4 and the handoff lists: the role that
\* recognizes an edit request transfers to testcase_writer when it has that
\* handoff, else to a role it can transfer to; testcase_writer itself goes
\* on to call edit_testcases_for_req
RecognizeEditRequest ==
    /\ run.phase = "turn"
    /\ run.task = "edit" /\ ~run.recognized
    /\ \E target \in (IF run.speaker = "testcase_writer" THEN {"none"}
                      ELSE IF "testcase_writer" \in Handoffs(run.speaker)
                        THEN {"testcase_writer"}
                      ELSE Handoffs(run.speaker)) :
        run' = IF target = "none"
                 THEN [run EXCEPT !.recognized = TRUE]
                 ELSE [Yielded(run, HandoffMessage(target))
                          EXCEPT !.recognized = TRUE]
    /\ UNCHANGED <<suite, tables, events, cache, next_id, pc, pool, now, cut, faults,
                   done, result, tc_obj, status, cutters>>

\* the model client raises during a role's turn: run_stream raises and
\* run_stream_with_suite is left at line 2775
RoleRaises ==
    /\ run.phase = "turn"
    /\ run' = [run EXCEPT !.phase = "crashed"]
    /\ UNCHANGED <<suite, tables, events, cache, next_id, pc, pool, now, cut, faults,
                   done, result, tc_obj, status, cutters>>

\* the result of ask_user as it would be without the token
AskUserResultPlain == ToolCallSummary(FALSE)

\* ask_user, lines 2446-2452: the returned dict holds "TERMINATE"
AskUserResult == ToolCallSummary(TRUE)

\* the body of ask_user, lines 2406-2452, called by a role or by another
\* tool: an unsupported event_type raises before write_event, and the
\* error text is the tool's result
AskUserBody(event_type) ==
    IF event_type \in allowed_types
      THEN /\ events' = Append(events, [type |-> "ask_user", version |-> 0,
                                        description |-> Desc(event_type)])
           /\ run' = [Yielded(run, AskUserResult) EXCEPT !.asked = TRUE]
      ELSE /\ run' = Yielded(run, ToolCallSummary(FALSE))
           /\ UNCHANGED events

\* ask_user called by planner or requirements_extractor
AskUser ==
    /\ run.phase = "turn"
    /\ "ask_user" \in Tools(run.speaker)
    /\ \E event_type \in EventTypeArgs : AskUserBody(event_type)
    /\ UNCHANGED <<suite, tables, cache, next_id, pc, pool, now, cut, faults,
                   done, result, tc_obj, status, cutters>>

\* generate_preview, lines 1645-1981: raises without documents, else ends
\* in ask_user(event_type="sample_confirmation", ...)
GeneratePreview ==
    /\ run.phase = "turn"
    /\ "generate_preview" \in Tools(run.speaker)
    /\ \/ AskUserBody("sample_confirmation")
       \/ /\ run' = Yielded(run, ToolCallSummary(FALSE))
          /\ UNCHANGED events
    /\ UNCHANGED <<suite, tables, cache, next_id, pc, pool, now, cut, faults,
                   done, result, tc_obj, status, cutters>>

\* identify_gaps, lines 2033-2077: a text without documents or after an
\* error, else ask_user(event_type="gaps_follow_up", ...)
IdentifyGaps ==
    /\ run.phase = "turn"
    /\ "identify_gaps" \in Tools(run.speaker)
    /\ \/ AskUserBody("gaps_follow_up")
       \/ /\ run' = Yielded(run, ToolCallSummary(FALSE))
          /\ UNCHANGED events
    /\ UNCHANGED <<suite, tables, cache, next_id, pc, pool, now, cut, faults,
                   done, result, tc_obj, status, cutters>>

\* store_docs_from_blob, lines 76-94: files of the session directory only
StoreDocsFromBlob ==
    /\ run.phase = "turn"
    /\ "store_docs_from_blob" \in Tools(run.speaker)
    /\ run' = Yielded(run, ToolCallSummary(FALSE))
    /\ UNCHANGED <<suite, tables, events, cache, next_id, pc, pool, now, cut, faults,
                   done, result, tc_obj, status, cutters>>

\* generate_direct_testcases_on_docs, lines 1983-2031: returns the text of
\* the reply, stores nothing
GenerateDirectTestcasesOnDocs ==
    /\ run.phase = "turn"
    /\ "generate_direct_testcases_on_docs" \in Tools(run.speaker)
    /\ run' = Yielded(run, ToolCallSummary(FALSE))
    /\ UNCHANGED <<suite, tables, events, cache, next_id, pc, pool, now, cut, faults,
                   done, result, tc_obj, status, cutters>>

\* the current speaker calls one of the versioned tools: the call runs as
\* the steps of pc
RoleCallsTool ==
    /\ run.phase = "turn"
    /\ now < MaxCuts
    /\ \E tool \in Tools(run.speaker) \cap SteppedTools :
        /\ tool = "restore" => now >= 1
        /\ run' = [run EXCEPT !.phase = "tool", !.tool = tool]
    /\ result' = NoResult
    /\ UNCHANGED <<suite, tables, events, cache, next_id, pc, pool, now, cut, faults,
                   done, tc_obj, status, cutters>>

\* the tool the speaker called has not begun yet; the suite-state reads
\* and writes of its cut succeed
Calls(tool) ==
    /\ run.phase = "tool" /\ run.tool = tool
    /\ pc.stage = "idle" /\ result = NoResult
    /\ faults' = faults

\* the call has returned or raised: its summary (or error text) is the
\* role's message
ToolReturns ==
    /\ run.phase = "tool"
    /\ pc.stage = "idle" /\ result # NoResult
    /\ run' = Yielded([run EXCEPT !.tool = "none"], ToolCallSummary(FALSE))
    /\ result' = NoResult
    /\ UNCHANGED <<suite, tables, events, cache, next_id, pc, pool, now, cut, faults,
                   done, tc_obj, status, cutters>>

\* save_state as it would be if the write kept what the cuts of the run
\* had put under agent_state
SaveStateKeepsWraps(r, stored) == [team |-> r.speaker, wraps |-> stored.wraps]

\* what lines 2811-2819 store under agent_state: saved_state
SavedAgentState(r, stored) == TeamState(r.speaker)

\* lines 2809-2821: save_state and _write_full_suite_state, whose failure is
\* printed and swallowed
SaveState ==
    /\ run.phase = "stopped"
    /\ \E write_ok \in BOOLEAN :
        /\ faults' = faults + (IF write_ok THEN 0 ELSE 1)
        /\ faults' <= MaxFaults
        /\ agent_state' = IF write_ok THEN SavedAgentState(run, agent_state)
                                      ELSE agent_state
        /\ run' = [run EXCEPT !.phase = "saved", !.saved = TeamState(run.speaker),
                              !.saved_run = run.n, !.save_ok = write_ok]
    /\ UNCHANGED <<latest_version, version_history, tables, events, cache, next_id,
                   pc, pool, now, cut, done, result, tc_obj, status, cutters>>

\* lines 2822-2830: back to idle, best effort
BackToIdle ==
    /\ run.phase = "saved"
    /\ \E write_ok \in BOOLEAN :
        /\ faults' = faults + (IF write_ok THEN 0 ELSE 1)
        /\ faults' <= MaxFaults
        /\ status' = IF write_ok THEN "idle" ELSE status
    /\ run' = [run EXCEPT !.phase = "none"]
    /\ UNCHANGED <<suite, tables, events, cache, next_id, pc, pool, now, cut,
                   done, result, tc_obj, cutters>>

\* the steps of a run once it has started; the suite has no test design
\* and no viewpoint when the version is cut, so their clone tasks never exist
RunProgress ==
    \/ LoadState
    \/ RoleReplies
    \/ RoleHandsOff
    \/ RecognizeEditRequest
    \/ RoleRaises
    \/ AskUser
    \/ GeneratePreview
    \/ IdentifyGaps
    \/ StoreDocsFromBlob
    \/ GenerateDirectTestcasesOnDocs
    \/ RoleCallsTool
    \/ Calls("extract") /\ ExtractRequirements
    \/ Calls("extract") /\ ExtractRequirementsNoDocs
    \/ Calls("test_design") /\ GenerateTestDesign
    \/ Calls("viewpoints") /\ GenerateViewpoints
    \/ Calls("testcases") /\ GenerateTestcases
    \/ Calls("testcases") /\ GenerateTestcasesNotFound
    \/ Calls("edit") /\ EditTestcases
    \/ Calls("edit") /\ EditTestcasesNoNote
    \/ Calls("restore") /\ RestoreSuiteVersion
    \/ CloneRequirements
    \/ CloneTestCases
    \/ CloneTestDesigns
    \/ CloneViewpoints
    \/ TestcaseTaskDeactivate
    \/ TestcaseTaskInsert
    \/ PoolJoin
    \/ EmitNewVersionEvent
    \/ PersistRequirements
    \/ PersistTestDesign
    \/ PersistViewpoints
    \/ PersistTestcases
    \/ PersistEdits
    \/ FinishRestore
    \/ ToolReturns
    \/ SaveState
    \/ BackToIdle

RunNext ==
    \/ StartRun
    \/ RunProgress

\* the suite after the runs in which one requirement was extracted as
\* version 1 and its test cases were generated as version 2, the last run
\* ended by the planner and saved
RunReq == ReqContent("REQ-1", Fresh(1, 1), 0)

RunInit ==
    /\ latest_version = 2
    /\ version_history = <<[version |-> 1, description |-> Desc("Requirements extracted"),
                            timestamp |-> 1],
                           [version |-> 2, description |-> Desc("Generated test cases"),
                            timestamp |-> 2]>>
    /\ agent_state = TeamState("planner")
    /\ requirements =
         {[id |-> 1, req_code |-> "REQ-1", content |-> RunReq, version |-> 1,
           active |-> FALSE, origin |-> NoOrigin],
          [id |-> 2, req_code |-> "REQ-1", content |-> RunReq, version |-> 2,
           active |-> TRUE, origin |-> ClonedItem(RunReq).origin]}
    /\ test_cases = {TcRow(3, 1, Item(TcContent("REQ-1", Fresh(2, 1), 0)), 2)}
    /\ test_designs = {}
    /\ viewpoints = {}
    /\ events = <<[type |-> "new_version", version |-> 1,
                   description |-> Desc("Requirements extracted")],
                  [type |-> "new_version", version |-> 2,
                   description |-> Desc("Generated test cases")]>>
    /\ cache = <<RunReq>>
    /\ next_id = 4
    /\ pc = Idle
    /\ pool = {}
    /\ now = 2
    /\ cut = [NoCut EXCEPT !.n = 2, !.ret = 2, !.prior_lv = 1,
                           !.prior_hist = <<[version |-> 1,
                                             description |-> Desc("Requirements extracted"),
                                             timestamp |-> 1]>>,
                           !.description = Desc("Generated test cases"),
                           !.clone_ran = TRUE, !.event_emitted = TRUE,
                           !.src_active = [NoCut.src_active EXCEPT
                                              !["requirements"] = {RunReq}]]
    /\ faults = 0
    /\ done = <<[op |-> "testcases", src |-> 0, version |-> 2],
                [op |-> "extract", src |-> 0, version |-> 1]>>
    /\ result = NoResult
    /\ tc_obj = NoTcObj
    /\ status = "idle"
    /\ run = [NoRun EXCEPT !.saved = TeamState("planner"), !.save_ok = TRUE]
    /\ cutters = NoCutters

RunSpec == RunInit /\ [][RunNext]_vars

\* a run that has started is carried on by the event loop: the awaited
\* calls return or raise; no new request has to arrive
FairRunSpec == RunSpec /\ WF_vars(RunProgress)


\* ---- the case-id normaliser of the test-case generators ----
\* A case id is [kind, val]: kind "none" is a missing or null id (or a case
\* that is not a dict), "int" a number, "str" a string; val is the text as
\* a sequence of tokens, so that f-strings are concatenations.
StrId(val) == [kind |-> "str", val |-> val]
RawIds ==
    {[kind |-> "none", val |-> <<>>], [kind |-> "int", val |-> <<"7">>],
     StrId(<<>>), StrId(<<" ">>), StrId(<<"a">>), StrId(<<" ", "a">>),
     StrId(<<"a", "-", "2">>), StrId(<<"REQ-1", "-TC-", "2">>)}
RawCaseLists == UNION {[1..n -> RawIds] : n \in 1..MaxCases}
NormPaths == {"single", "bulk", "integration_single", "integration_bulk"}

\* str(n) of a small positive number
Decimal(n) ==
    CASE n = 1 -> "1" [] n = 2 -> "2" [] n = 3 -> "3" [] n = 4 -> "4" [] OTHER -> "5"

RECURSIVE LStrip(_)
LStrip(s) == IF s # <<>> /\ Head(s) = " " THEN LStrip(Tail(s)) ELSE s
RECURSIVE RStrip(_)
RStrip(s) == IF s # <<>> /\ s[Len(s)] = " " THEN RStrip(SubSeq(s, 1, Len(s) - 1)) ELSE s
\* str.strip()
Strip(s) == RStrip(LStrip(s))

\* lines 713-718: None becomes "", any other non-string becomes str(val)
CoerceId(raw) == IF raw.kind = "none" THEN <<>> ELSE raw.val

\* lines 728-732: the while loop over counter
RECURSIVE UniqueId(_, _, _)
UniqueId(new_id, counter, used_ids) ==
    LET uniq_id == new_id \o <<"-", Decimal(counter)>>
    IN IF uniq_id \notin used_ids THEN uniq_id
       ELSE UniqueId(new_id, counter + 1, used_ids)

\* lines 721-734 (569-588 in the bulk worker, 1265-1279 in the single
\* integration path): the loop over the cases, idx from 1
RECURSIVE EnsureUniqueIds(_, _, _, _, _)
EnsureUniqueIds(req_id, tag, ids, idx, used_ids) ==
    IF idx > Len(ids) THEN <<>>
    ELSE LET stripped == Strip(ids[idx])
             new_id == IF stripped = <<>> THEN <<req_id, tag, Decimal(idx)>> ELSE stripped
             uniq_id == IF new_id \notin used_ids THEN new_id
                        ELSE UniqueId(new_id, 2, used_ids)
         IN <<uniq_id>> \o EnsureUniqueIds(req_id, tag, ids, idx + 1,
                                           used_ids \cup {uniq_id})

\* the fallback tag of a path: f"{req_id}-TC-{idx}" or f"{req_id}-ITC-{idx}"
FallbackTag(path) == IF path = "integration_single" THEN "-ITC-" ELSE "-TC-"

NormalizedCases(path, req_id, cases) ==
    LET ids == EnsureUniqueIds(req_id, FallbackTag(path),
                               [i \in DOMAIN cases |-> CoerceId(cases[i])], 1, {})
    IN [i \in DOMAIN cases |-> StrId(ids[i])]

\* a generation call has returned a dict with a list of cases
NormInit ==
    /\ NewSuite
    /\ tc_obj \in {[path |-> p, req_id |-> "REQ-1", raw |-> c, cases |-> c,
                    stage |-> "parsed"] : p \in NormPaths, c \in RawCaseLists}

\* the normalisation block of the three paths that have one
NormalizeTestcases ==
    /\ tc_obj.stage = "parsed" /\ tc_obj.path # "integration_bulk"
    /\ tc_obj' = [tc_obj EXCEPT !.cases = NormalizedCases(tc_obj.path, tc_obj.req_id, @),
                                !.stage = "normalized"]
    /\ UNCHANGED <<suite, tables, events, cache, next_id, pc, pool, now, cut,
                   faults, done, result, loop>>

\* write_testcases(testcases=tc_obj, ...): lines 748-757, 603-612, 1288-1297,
\* and 996-1006, where the bulk integration worker passes the parsed dict
HandToWriter ==
    /\ \/ tc_obj.stage = "normalized"
       \/ tc_obj.stage = "parsed" /\ tc_obj.path = "integration_bulk"
    /\ tc_obj' = [tc_obj EXCEPT !.stage = "persisted"]
    /\ UNCHANGED <<suite, tables, events, cache, next_id, pc, pool, now, cut,
                   faults, done, result, loop>>

NormNext ==
    \/ NormalizeTestcases
    \/ HandToWriter

NormSpec == NormInit /\ [][NormNext]_vars


\* ---- properties ----
Kinds == {"requirements", "test_cases", "test_designs", "viewpoints"}

Table(k) ==
    CASE k = "requirements" -> requirements
      [] k = "test_cases" -> test_cases
      [] k = "test_designs" -> test_designs
      [] OTHER -> viewpoints

\* the kind a tool call writes itself after the cut
TargetKind(op) ==
    CASE op = "extract" -> "requirements"
      [] op = "test_design" -> "test_designs"
      [] op = "viewpoints" -> "viewpoints"
      [] op \in {"testcases", "edit"} -> "test_cases"
      [] OTHER -> "none"

\* C1: with every suite-state read and write succeeding, the k-th
\* _increment_suite_version call returns k, and version_history holds one
\* entry per cut, numbered 1, 2, ... in order.
C1_VersionMonotonic ==
    faults = 0 =>
        /\ cut.ret = now
        /\ latest_version = now
        /\ Len(version_history) = now
        /\ \A i \in 1..Len(version_history) : version_history[i].version = i

C1_Witness ==
    /\ faults = 0 /\ now = MaxCuts /\ cut.ret = MaxCuts
    /\ Len(version_history) = MaxCuts /\ pc.stage = "idle"

\* C2: latest_version never decreases, whatever the operation and also
\* after a failed suite-state read.
C2_LatestVersionNeverDecreases == [][latest_version' >= latest_version]_vars

\* C3: version_history is append-only: whenever it changes, the new value is
\* the stored history followed by exactly one entry, the one of the version
\* just cut.
C3_HistoryAppendOnly ==
    [][version_history' # version_history =>
        /\ Len(version_history') = Len(version_history) + 1
        /\ SubSeq(version_history', 1, Len(version_history)) = version_history
        /\ version_history'[Len(version_history')] =
             [version |-> cut'.ret, description |-> cut'.description,
              timestamp |-> now']]_vars

\* a row of the target version that carries the source row forward: same
\* key columns and the same content (for a test case, up to the embedded
\* version)
Carries(k, s, r) ==
    CASE k = "requirements" -> r.req_code = s.req_code /\ r.content = s.content
      [] k = "test_cases" ->
            /\ r.content.requirement_id = s.content.requirement_id
            /\ r.content.body = s.content.body
      [] k = "test_designs" -> r.testing_type = s.testing_type /\ r.content = s.content
      [] OTHER -> r.name = s.name /\ r.content = s.content

CanClone(k, s) ==
    CASE k = "requirements" -> s.req_code # ""
      [] k = "test_cases" ->
            ReqIdToCode(requirements, s.requirement_id) # "" /\ IsDict(s.content)
      [] OTHER -> TRUE

NaturalKey(k, r) ==
    CASE k = "requirements" -> <<r.req_code>>
      [] k = "test_cases" -> <<r.requirement_id>>
      [] k = "test_designs" -> <<r.testing_type>>
      [] OTHER -> <<r.requirement_id, r.name>>

AtMostOneActive(k) ==
    \A r1, r2 \in Table(k) :
        (r1.active /\ r2.active /\ NaturalKey(k, r1) = NaturalKey(k, r2)) => r1.id = r2.id

\* C6: after any sequence of completed write operations, each natural key
\* has at most one active row (stated for the runs in which every
\* suite-state read and write succeeded).
C6_SingleActive ==
    (faults = 0 /\ pc.stage = "idle") =>
        \A k \in Kinds : AtMostOneActive(k)

ContentsAt(k, v) == {r.content : r \in RowsAt(Table(k), v)}

\* C7: two restores of the same version N in a row give two new versions,
\* different from each other and from N, whose rows have the content of the
\* rows at N, for every kind.
C7_IdempotentRestore ==
    (/\ pc.stage = "idle" /\ Len(done) = 2
     /\ done[1].op = "restore" /\ done[2].op = "restore"
     /\ done[1].src = done[2].src) =>
        /\ done[1].version # done[2].version
        /\ done[1].version # done[1].src
        /\ done[2].version # done[1].src
        /\ \A k \in Kinds :
            /\ ContentsAt(k, done[1].version) = ContentsAt(k, done[1].src)
            /\ ContentsAt(k, done[2].version) = ContentsAt(k, done[1].src)

\* every row outside version v is still there with its content and version
RowsKept(v) ==
    /\ \A r \in requirements : r.version # v =>
         \E q \in requirements' : q.id = r.id /\ q.content = r.content /\ q.version = r.version
    /\ \A r \in test_cases : r.version # v =>
         \E q \in test_cases' : q.id = r.id /\ q.content = r.content /\ q.version = r.version
    /\ \A r \in test_designs : r.version # v =>
         \E q \in test_designs' : q.id = r.id /\ q.content = r.content /\ q.version = r.version
    /\ \A r \in viewpoints : r.version # v =>
         \E q \in viewpoints' : q.id = r.id /\ q.content = r.content /\ q.version = r.version

\* C8: a restore of N creates exactly one new version, latest_version + 1,
\* with the history entry "Restored from vN", returns {new_version,
\* restored_from: N}, and leaves the rows of the existing versions as they
\* were.
C8_RestoreIsNewVersion ==
    [][pc.op = "restore" =>
        /\ RowsKept(pc.version)
        /\ pc'.stage = "idle" =>
            /\ done'[1].version = cut.prior_lv + 1
            /\ done'[1].src = pc.arg
            /\ latest_version' = cut.prior_lv + 1
            /\ version_history' =
                 Append(cut.prior_hist,
                        [version |-> cut.prior_lv + 1,
                         description |-> RestoredFrom(pc.arg),
                         timestamp |-> cut.n])]_vars

\* a row stays as written: same content and version, and active only if
\* it was active
Unchanged(r, tbl) ==
    \E q \in tbl : /\ q.id = r.id /\ q.content = r.content
                   /\ q.version = r.version /\ (q.active => r.active)

AllIds == {r.id : r \in requirements \cup test_cases \cup test_designs \cup viewpoints}

C10_AbortOnWriteFailure ==
    ~cut.write_ok =>
        /\ ~cut.clone_ran
        /\ ~cut.event_emitted
        /\ pc.stage \in {"persist", "idle"} => cut.ret = 0

C12_CloneThenOverwrite ==
    [][(/\ faults = 0 /\ pc.stage = "persist" /\ pc.version > 1
        /\ pc.op \in {"extract", "test_design", "viewpoints", "testcases"}) =>
        LET k == TargetKind(pc.op)
        IN \A r \in Table(k)' :
            (/\ r.id >= next_id
             /\ \E q \in Table(k) : /\ q.version = pc.version /\ ~q.origin.none
                                    /\ NaturalKey(k, q) = NaturalKey(k, r)) =>
                /\ r.version = pc.version /\ r.active /\ r.origin.none
                /\ \A q \in Table(k)' :
                    (q.active /\ NaturalKey(k, q) = NaturalKey(k, r)) => q.id = r.id]_vars

\* C13: clone-forward copies only rows that were active at the source
\* version: every row cloned into the version being cut has the content of
\* a row that was active at the source version when the clone started.
C13_CloneOnlyActive ==
    (cut.clone_ran /\ pc.stage # "idle" /\ faults = 0) =>
        \A k \in Kinds : \A r \in Table(k) :
            (r.version = pc.version /\ ~r.origin.none) =>
                r.origin.content \in cut.src_active[k]

InvalidJSONErrors ==
    {"Invalid JSON from extractor", "Invalid JSON from test design generator",
     "Invalid JSON from viewpoints generator", "Invalid JSON from testcase writer",
     "Invalid JSON from bulk edit generator"}

\* C18: a generator call that ends with an invalid-JSON error has persisted
\* nothing: latest_version and version_history are as they were when the
\* call started, and no artifact row of the call's version exists.
C18_NothingPersistedOnParseFailure ==
    [][(/\ result'.status = "error" /\ result'.error \in InvalidJSONErrors
        /\ (result' # result \/ pc' # pc)) =>
        /\ latest_version' = IF pc.stage = "idle" THEN latest_version ELSE cut.prior_lv
        /\ version_history' = IF pc.stage = "idle" THEN version_history
                                                   ELSE cut.prior_hist
        /\ UNCHANGED tables
        /\ pc.stage # "idle" =>
              \A k \in Kinds : \A r \in Table(k) : r.version # pc.version]_vars

GeneratorsOnRequirements == {"testcases", "test_design", "viewpoints", "edit"}

\* C19: while the suite has no requirement (none cached, no row), a call of
\* a generator that needs requirements cuts no version, writes no row and
\* ends in a raised error, never in a returned value.
C19_MissingInputRaises ==
    [][(cache = <<>> /\ requirements = {}) =>
        /\ (pc.stage = "idle" /\ pc'.stage # "idle") =>
              pc'.op \notin GeneratorsOnRequirements
        /\ (result' # result /\ result'.op \in GeneratorsOnRequirements) =>
              result'.status = "error"]_vars

BulkOps == {"testcases_bulk", "integration_bulk"}

C15_BulkPartialFailure ==
    [][(pc.stage = "workers" /\ pc'.stage = "idle") =>
        LET raising == {t.req_code : t \in {x \in pool : x.stage = "failed"}}
            others == {t.req_code : t \in {x \in pool : x.stage # "failed"}}
        IN /\ result'.status = "ok" /\ result'.op \in BulkOps
           /\ Len(result'.results) + Len(result'.errors) = Len(pc.arg.targets)
           /\ {result'.errors[i] : i \in DOMAIN result'.errors} = raising
           /\ {result'.results[i] : i \in DOMAIN result'.results} = others
           /\ \A t \in pool :
                t.stage # "failed" =>
                    \E r \in test_cases : /\ r.version = t.version
                                          /\ r.content = t.item.content]_vars

C15_Witness ==
    /\ pc.stage = "idle" /\ result.op \in BulkOps /\ result.status = "ok"
    /\ Len(result.results) = 1 /\ Len(result.errors) = 1

\* C16: never more than 6 pool tasks are in progress, and a pool holds tasks
\* only during the fan-out of a bulk generation.
C16_PoolOnlyInBulkFanOut ==
    /\ Cardinality({t \in pool : t.stage \in {"call", "deactivate", "insert"}}) <= MaxWorkers
    /\ pool # {} => pc.stage = "workers"

\* C20: the rows an integration generator read for its prompt (test design,
\* viewpoints) never carry the version the call is writing; stated for the
\* runs in which every suite-state read and write succeeded.
C20_ReadsNotFromInProgressVersion ==
    (faults = 0 /\ pc.version # 0) =>
        /\ \A t \in pool :
              t.kind = "worker" => \A ref \in t.linked : ref.version # pc.version
        /\ pc.op = "integration" => \A ref \in pc.arg.linked : ref.version # pc.version

\* C17: the case ids of a test-case artifact handed to the writer are
\* strings, non-blank and pairwise distinct, and a case whose returned id was
\* blank or missing at position n has the id <req_code>-TC-<n> (followed by
\* a suffix when that id was already taken).
C17_UniqueCaseIds ==
    tc_obj.stage = "persisted" =>
        /\ \A i \in DOMAIN tc_obj.cases :
              /\ tc_obj.cases[i].kind = "str"
              /\ Strip(tc_obj.cases[i].val) # <<>>
              /\ Strip(CoerceId(tc_obj.raw[i])) = <<>> =>
                    /\ Len(tc_obj.cases[i].val) >= 3
                    /\ SubSeq(tc_obj.cases[i].val, 1, 3) =
                          <<tc_obj.req_id, "-TC-", Decimal(i)>>
        /\ \A i, j \in DOMAIN tc_obj.cases :
              i # j => tc_obj.cases[i] # tc_obj.cases[j]

\* C27: while the call that created version v still has rows of v to write
\* (the rows it clones forward or the rows of its own operation),
\* latest_version is not v and no new_version event for v is in the event
\* table.
C27_VisibilityOrdering ==
    (/\ pc.stage # "idle"
     /\ pc.op \in {"extract", "test_design", "testcases"}
     /\ pc.version # 0)
        => /\ latest_version # pc.version
           /\ \A i \in DOMAIN events : events[i].version # pc.version

\* C29: edit_testcases_for_req with an accepted version_note calls
\* _increment_suite_version before the edit generation call, whatever the
\* reply will hold: on the step that runs the cut, with the suite-state read
\* and write succeeding, latest_version grows by one and version_history by
\* one entry; and when the call ends, also with a reply that holds no
\* applicable edit, the version stays consumed.
C29_EditCutsFirst ==
    [][/\ (pc.stage = "idle" /\ pc'.op = "edit" /\ pc'.stage # "idle") =>
             /\ now' = now + 1
             /\ cut'.description = Desc("edit note")
             /\ (cut'.read_ok /\ cut'.write_ok /\ cut'.ret # 0) =>
                   /\ latest_version' = latest_version + 1
                   /\ Len(version_history') = Len(version_history) + 1
                   /\ version_history'[Len(version_history')].version = latest_version + 1
                   /\ SubSeq(version_history', 1, Len(version_history)) = version_history
       /\ (pc.op = "edit" /\ pc.stage = "persist" /\ pc'.stage = "idle"
           /\ cut.read_ok /\ cut.write_ok /\ cut.ret # 0) =>
             /\ latest_version' = cut.prior_lv + 1
             /\ Len(version_history') = Len(cut.prior_hist) + 1
             /\ pc.arg = <<>> => test_cases' = test_cases
      ]_vars

\* a reply without edits is about to be applied, one version after the
\* first extraction
C29_Witness ==
    /\ pc.op = "edit" /\ pc.stage = "persist" /\ pc.arg = <<>>
    /\ faults = 0 /\ cut.ret = 2 /\ latest_version = 2
    /\ Len(version_history) = 2 /\ requirements # {}

\* the requirement codes the edits of a reply name
NamedCodes(edits) == {edits[i].req_code : i \in DOMAIN edits}

C21_NoTurnAfterTermination ==
    [][(run.halted /\ run'.n = run.n) =>
          /\ run.phase \in {"stopped", "saved", "none"}
          /\ run'.phase \in {"stopped", "saved", "none"}
          /\ run'.speaker = run.speaker
          /\ run'.tool = run.tool
          /\ events' = events
          /\ pc' = pc
      ]_vars

\* the result of ask_user has ended a run and the run has been saved
C21_Witness ==
    /\ run.halted /\ run.asked /\ run.phase = "saved"
    /\ events[Len(events)].type = "ask_user"

\* C22: within a run, the role that acts after the fetcher is the planner:
\* when the speaker changes from fetcher it changes to planner, so that no
\* role with a generation tool acts between a fetch and the planner's turn.
C22_PlannerAfterFetcher ==
    [][(run.phase = "turn" /\ run.speaker = "fetcher" /\ run'.n = run.n
        /\ run'.speaker # "fetcher") => run'.speaker = "planner"
      ]_vars

C24_EditShortCircuit ==
    [][(~run.recognized /\ run'.recognized /\ run'.n = run.n)
          => run'.speaker = "testcase_writer"
      ]_vars

C26_StatusReturnsToIdle ==
    /\ [](run.phase \in {"turn", "tool"} => status = "chatting")
    /\ (status = "chatting") ~> (status = "idle")

\* the new_version events that carry version v and the description d
NewVersionEvents(v, d) ==
    {j \in DOMAIN events : /\ events[j].type = "new_version"
                           /\ events[j].version = v
                           /\ events[j].description = d}

\* C31: once a call has completed, every version cut so far, also one cut
\* through restore, has exactly one new_version event carrying its number
\* and its description (stated for the runs in which every suite-state
\* read and write succeeded).
C31_OneEventPerCut ==
    (faults = 0 /\ pc.stage = "idle") =>
        \A i \in DOMAIN version_history :
            Cardinality(NewVersionEvents(version_history[i].version,
                                         version_history[i].description)) = 1

\* C32: at every point of every interleaving of the writer tasks running in
\* a thread pool, each natural key of the kinds written through a bulk
\* writer has at most one active row (stated for test cases and test
\* designs, whose keys are never null, and for the runs in which every
\* suite-state read and write succeeded).
C32_SingleActiveConcurrent ==
    faults = 0 => AtMostOneActive("test_cases") /\ AtMostOneActive("test_designs")

\* C33: when a writer called by a tool (write_requirements, write_testcases,
\* write_test_design, write_viewpoints) has inserted an active row, every
\* row that was active under the same natural key before the call has been
\* deactivated by it (stated for the runs in which every suite-state read
\* and write succeeded).
C33_DeactivateBeforeInsert ==
    [][(faults = 0 /\ pc.stage = "persist" /\ pc'.stage = "idle") =>
        \A k \in Kinds : \A r \in Table(k)' :
            (r.id >= next_id /\ r.active) =>
                \A q \in Table(k) :
                    (q.active /\ NaturalKey(k, q) = NaturalKey(k, r)) =>
                        \A q2 \in Table(k)' : q2.id = q.id => ~q2.active]_vars

\* C34: a call of _increment_suite_version leaves the agent_state key of
\* the stored suite state as it was; it changes latest_version and
\* version_history only (stated for the calls whose state read and write
\* succeed).
C34_CutPreservesAgentState ==
    [][(now' = now + 1 /\ faults' = 0 /\ pc'.op # "none")
          => agent_state' = agent_state]_vars

\* C35: when an edit has been applied (a known requirement R, a dict of new
\* test cases, the cut at version v succeeded), exactly one test-case row
\* of R exists at v: it is active, it was written by the edit and not by
\* the clone, and it holds the replacement content with the embedded
\* version v.
C35_EditReplacesBaseRow ==
    [][(/\ pc.stage = "persist" /\ pc.op = "edit" /\ pc'.stage = "idle"
        /\ faults = 0 /\ result'.status = "ok") =>
        \A i \in DOMAIN pc.arg :
            (/\ Candidates(requirements, pc.arg[i].req_code) # {}
             /\ IsDict(pc.arg[i].new_testcases)) =>
                LET rows == {r \in test_cases' :
                                /\ r.version = pc.version
                                /\ r.content.requirement_id = pc.arg[i].req_code}
                IN /\ Cardinality(rows) = 1
                   /\ \A r \in rows :
                        /\ r.active /\ r.origin.none
                        /\ r.content = [pc.arg[i].new_testcases
                                          EXCEPT !.version = pc.version]]_vars

\* C36: when a key of kind K was regenerated at version v (v holds a row
\* cloned from v-1 and a freshly generated row of that key) and a later
\* call that targets another kind has cut v+1 and cloned v forward, every
\* active row of that key carries the content generated at v (stated for
\* the runs in which every suite-state read and write succeeded).
C36_ActiveStaysLatest ==
    (/\ faults = 0 /\ pc.stage = "persist" /\ pc.op # "restore" /\ pc.version > 1) =>
        \A k \in Kinds \ {TargetKind(pc.op)} :
            \A s \in RowsAt(Table(k), pc.version - 1) :
                (/\ s.origin.none
                 /\ \E c \in RowsAt(Table(k), pc.version - 1) :
                        ~c.origin.none /\ NaturalKey(k, c) = NaturalKey(k, s)) =>
                    \A r \in Table(k) :
                        (r.active /\ NaturalKey(k, r) = NaturalKey(k, s))
                            => Carries(k, s, r)

\* C37: a run in which a role is to act eventually leaves the role loop (it
\* reaches the termination condition, or ends through an error): no
\* behaviour keeps the roles taking turns and handing off for ever.
C37_RunTerminates ==
    (run.phase = "turn") ~> (run.phase \notin {"turn", "tool"})

\* C38: when restore_suite_version has completed, every active row of every
\* kind carries the version the restore created, so a key that exists only
\* in versions later than the restored one has no active row (stated for
\* the runs in which every suite-state read and write succeeded, and for
\* the rows whose natural key has no null component).
C38_RestoreLeavesOnlyNewVersionActive ==
    (/\ faults = 0 /\ pc.stage = "idle" /\ Len(done) >= 1
     /\ done[1].op = "restore") =>
        \A k \in Kinds : \A r \in Table(k) :
            (r.active /\ ~(k = "viewpoints" /\ r.requirement_id = 0))
                => r.version = done[1].version

\* C39: in every reachable state every artifact row carries a version v
\* with 1 <= v <= latest_version.
C39_RowVersionsInRange ==
    \A k \in Kinds : \A r \in Table(k) :
        r.version >= 1 /\ r.version <= latest_version

\* C40: once a call that cut a version has completed (an extraction, a
\* restore, any call whose cut cloned the requirements), every requirement
\* with an id that the cache holds is the content of a requirement row at
\* latest_version, so that test-case generation reads the current
\* requirements (stated for the runs in which every suite-state read and
\* write succeeded).
C40_CacheIsCurrent ==
    (faults = 0 /\ pc.stage = "idle" /\ Len(done) >= 1) =>
        \A i \in DOMAIN cache :
            cache[i].id # "" =>
                cache[i] \in ContentsAt("requirements", latest_version)

====
